---- MODULE Spec2Model ----
(***************************************************************************)
(* seal-crypto: the AEAD capability (ChaCha20-Poly1305 / XChaCha20-        *)
(* Poly1305, src/src/systems/aead/chacha20_poly1305.rs), the Dilithium     *)
(* signature capability (src/src/systems/asymmetric/post_quantum/          *)
(* dilithium.rs), the ECDH key agreement (src/src/systems/asymmetric/      *)
(* traditional/ecdh.rs) and the key types (src/src/traits/key.rs).         *)
(*                                                                         *)
(* The capability layer is translated statement by statement.  The         *)
(* primitive providers it calls (the chacha20poly1305 and pqcrypto crates) *)
(* are external collaborators; they are modelled by their contract: a      *)
(* keyed XOR keystream, a MAC and a signature that are collision-free      *)
(* within the bounds below, and the length checks / panics of their        *)
(* decoders.                                                               *)
(***************************************************************************)
EXTENDS Integers, Sequences, FiniteSets, TLC

VARIABLES call, output, result, sealed,
          keypair, signed, vcall, vresult,
          pairs, prev, last,
          origin, kcall, kresult, kbytes, printed,
          gen, used,
          heap,
          remembered, latest,
          tcall, tpc, tres, bufs, tlocal,
          idlog

vars == <<call, output, result, sealed, keypair, signed, vcall, vresult,
          pairs, prev, last, origin, kcall, kresult, kbytes, printed,
          gen, used, heap, remembered, latest,
          tcall, tpc, tres, bufs, tlocal, idlog>>

\* What the operations of one capability leave alone: the state of the
\* other capabilities.
exceptAead ==
  <<keypair, signed, vcall, vresult, pairs, prev, last, origin, kcall,
    kresult, kbytes, printed, gen, used, heap, remembered, latest, tcall,
    tpc, tres, bufs, tlocal, idlog>>
exceptSig ==
  <<call, output, result, sealed, pairs, prev, last, origin, kcall,
    kresult, kbytes, printed, gen, used, heap, remembered, latest, tcall,
    tpc, tres, bufs, tlocal, idlog>>
exceptEcdh ==
  <<call, output, result, sealed, keypair, signed, vcall, vresult, origin,
    kcall, kresult, kbytes, printed, gen, used, heap, remembered, latest,
    tcall, tpc, tres, bufs, tlocal, idlog>>
exceptKey ==
  <<call, output, result, sealed, keypair, signed, vcall, vresult, pairs,
    prev, last, gen, used, heap, remembered, latest, tcall, tpc, tres,
    bufs, tlocal, idlog>>
exceptGen ==
  <<call, output, result, sealed, keypair, signed, vcall, vresult, pairs,
    prev, last, origin, kcall, kresult, kbytes, printed, heap, remembered,
    latest, tcall, tpc, tres, bufs, tlocal, idlog>>
exceptMem ==
  <<call, output, result, sealed, keypair, signed, vcall, vresult, pairs,
    prev, last, origin, kcall, kresult, kbytes, printed, gen, used,
    remembered, latest, tcall, tpc, tres, bufs, tlocal, idlog>>
exceptSeq ==
  <<call, output, result, sealed, keypair, signed, vcall, vresult, pairs,
    prev, last, origin, kcall, kresult, kbytes, printed, gen, used, heap,
    tcall, tpc, tres, bufs, tlocal, idlog>>
exceptConc ==
  <<call, output, result, sealed, keypair, signed, vcall, vresult, pairs,
    prev, last, origin, kcall, kresult, kbytes, printed, gen, used, heap,
    remembered, latest, idlog>>
exceptId ==
  <<call, output, result, sealed, keypair, signed, vcall, vresult, pairs,
    prev, last, origin, kcall, kresult, kbytes, printed, gen, used, heap,
    remembered, latest, tcall, tpc, tres, bufs, tlocal>>

(***************************************************************************)
(* Bounds of the model.                                                    *)
(***************************************************************************)
MaxPtLen == 2
MaxAadLen == 1
ExtraOut == 1
FillByte == 170

KeyFills == {1}
NonceFills == {1}
PtBytes == {0, 255}
AadByteSet == {1, 2}
FlipBits == 0..7

(***************************************************************************)
(* Bytes, slices and results.                                              *)
(***************************************************************************)
Byte == 0..255

RECURSIVE XorN(_, _, _)
XorN(a, b, n) ==
  IF n = 0 THEN 0
  ELSE ((a + b) % 2) + 2 * XorN(a \div 2, b \div 2, n - 1)

Xor(a, b) == XorN(a, b, 8)

Pow2(k) == CASE k = 0 -> 1 [] k = 1 -> 2 [] k = 2 -> 4 [] k = 3 -> 8
             [] k = 4 -> 16 [] k = 5 -> 32 [] k = 6 -> 64 [] OTHER -> 128

SeqsUpTo(S, n) == UNION {[1..k -> S] : k \in 0..n}

Take(s, n) == SubSeq(s, 1, n)
Drop(s, n) == SubSeq(s, n + 1, Len(s))

RECURSIVE SumTo(_, _)
SumTo(s, n) == IF n = 0 THEN 0 ELSE s[n] + SumTo(s, n - 1)

SumSeq(s) == SumTo(s, Len(s))

Ok(n) == [tag |-> "Ok", n |-> n, err |-> "none"]
Err(e) == [tag |-> "Err", n |-> 0, err |-> e]
Panic == [tag |-> "Panic", n |-> 0, err |-> "panic"]

None == [some |-> FALSE, bytes |-> <<>>]
Some(b) == [some |-> TRUE, bytes |-> b]

\* Variant: an absent AAD is passed on as one zero byte.
unwrap_or_default_absent_as_zero(aad) ==
  IF aad.some THEN aad.bytes ELSE <<0>>

unwrap_or_default(aad) == IF aad.some THEN aad.bytes ELSE <<>>

(***************************************************************************)
(* Scheme parameters.                                                      *)
(***************************************************************************)
Schemes == {"ChaCha20Poly1305", "XChaCha20Poly1305"}

KEY_SIZE(P) == 32
NONCE_SIZE(P) == IF P = "ChaCha20Poly1305" THEN 12 ELSE 24
TAG_SIZE(P) == 16

\* Sizes the bound provider cipher type itself requires (GenericArray
\* lengths of Key<C>, Nonce<C>, Tag<C>); from_slice panics on any other.
CoreKeySize(P) == 32
CoreNonceSize(P) == IF P = "ChaCha20Poly1305" THEN 12 ELSE 24
CoreTagSize(P) == 16
BLOCK_SIZE == 64

\* The provider refuses a buffer of u32::MAX blocks or more
\* (buffer.len() / BLOCK_SIZE >= 2^32 - 1, written within 32-bit integers).
ExceedsMaxBlocks(buf) ==
  ((Len(buf) \div BLOCK_SIZE) + 1) \div 65536 >= 65536

(***************************************************************************)
(* Primitive provider (chacha20poly1305 crate), by contract.               *)
(***************************************************************************)
KeystreamByte(key, nonce, i) ==
  (3 * key[1 + (i % Len(key))] + 5 * nonce[1 + (i % Len(nonce))]
     + 17 * i + 92) % 256

ApplyKeystream(key, nonce, buf) ==
  [i \in 1..Len(buf) |-> Xor(buf[i], KeystreamByte(key, nonce, i))]

\* Fold the bytes of s into w slots (slot j collects the bytes at the
\* positions congruent to j): one-to-one for Len(s) <= w.
Fold(s, w) ==
  [j \in 1..w |->
     SumSeq([k \in 1..((Len(s) + w - j) \div w) |-> s[j + (k - 1) * w]]) % 256]

ComputeTag(key, nonce, aad, buf) ==
  <<SumSeq(key) % 256, SumSeq(nonce) % 256, Len(aad) % 256, Len(buf) % 256>>
    \o Fold(aad, 4) \o Fold(buf, 8)

encrypt_in_place_detached(key, nonce, aad, buf) ==
  IF ExceedsMaxBlocks(buf)
  THEN [ok |-> FALSE, buf |-> buf, tag |-> <<>>]
  ELSE LET ct == ApplyKeystream(key, nonce, buf)
       IN [ok |-> TRUE, buf |-> ct, tag |-> ComputeTag(key, nonce, aad, ct)]

decrypt_in_place_detached(key, nonce, aad, buf, tag) ==
  IF ExceedsMaxBlocks(buf)
  THEN [ok |-> FALSE, buf |-> buf]
  ELSE IF ComputeTag(key, nonce, aad, buf) = tag
       THEN [ok |-> TRUE, buf |-> ApplyKeystream(key, nonce, buf)]
       ELSE [ok |-> FALSE, buf |-> buf]

(***************************************************************************)
(* AeadEncryptor::encrypt_to_buffer                                        *)
(***************************************************************************)
\* Variant: only too-short keys are rejected.
key_size_ok_at_least(P, key) == Len(key) >= KEY_SIZE(P)

key_size_ok(P, key) == Len(key) = KEY_SIZE(P)

\* Variant: every scheme expects the 12-byte nonce.
nonce_size_ok_standard_only(P, nonce) == Len(nonce) = 12

nonce_size_ok(P, nonce) == Len(nonce) = NONCE_SIZE(P)

\* Variant: the room for the tag is left out of the required length.
required_len_without_tag(P, plaintext) == Len(plaintext)

required_len(P, plaintext) == Len(plaintext) + TAG_SIZE(P)

\* Key::from_slice / Nonce::from_slice / Tag::from_slice panic unless the
\* slice has exactly the length of the cipher's array type.
from_slice_ok(P, key, nonce) ==
  Len(key) = CoreKeySize(P) /\ Len(nonce) = CoreNonceSize(P)

\* Variant: the input is not copied; the bytes the output already holds
\* are processed in place.
copy_from_slice_skipped(dst, src) == dst

\* out_buf.copy_from_slice(src): dst and src have the same length (dst is
\* the output split at src.len()), and dst then holds the bytes of src.
copy_from_slice(dst, src) == src

\* Variant: the tag is written at the end of the buffer.
write_tag_at_end(P, tag_buf, tag) ==
  Take(tag_buf, Len(tag_buf) - TAG_SIZE(P)) \o tag

\* Variant: the tag is not written; the tag bytes of the output keep what
\* the buffer held.
write_tag_skipped(P, tag_buf, tag) == tag_buf

\* tag_buf[..P::TAG_SIZE].copy_from_slice(&tag)
write_tag(P, tag_buf, tag) == tag \o Drop(tag_buf, TAG_SIZE(P))

\* Variant: the nonce size is checked before the key size.
encrypt_to_buffer_nonce_first(P, key, nonce, plaintext, out, aad) ==
  IF ~nonce_size_ok(P, nonce)
  THEN [res |-> Err("Symmetric(InvalidNonceSize)"), out |-> out]
  ELSE IF ~key_size_ok(P, key)
  THEN [res |-> Err("Symmetric(InvalidKeySize)"), out |-> out]
  ELSE IF Len(out) < required_len(P, plaintext)
  THEN [res |-> Err("Symmetric(OutputTooSmall)"), out |-> out]
  ELSE IF ~from_slice_ok(P, key, nonce)
  THEN [res |-> Panic, out |-> out]
  ELSE IF Len(plaintext) > Len(out)
  THEN [res |-> Panic, out |-> out]
  ELSE
    LET tag_buf == Drop(out, Len(plaintext))
        out_buf == copy_from_slice(Take(out, Len(plaintext)), plaintext)
        sealing == encrypt_in_place_detached(key, nonce,
                      unwrap_or_default(aad), out_buf)
    IN
    IF ~sealing.ok
    THEN [res |-> Err("Symmetric(Encryption)"), out |-> sealing.buf \o tag_buf]
    ELSE IF Len(tag_buf) < TAG_SIZE(P) \/ Len(sealing.tag) # TAG_SIZE(P)
    THEN [res |-> Panic, out |-> sealing.buf \o tag_buf]
    ELSE [res |-> Ok(required_len(P, plaintext)),
          out |-> sealing.buf \o write_tag(P, tag_buf, sealing.tag)]

encrypt_to_buffer(P, key, nonce, plaintext, out, aad) ==
  IF ~key_size_ok(P, key)
  THEN [res |-> Err("Symmetric(InvalidKeySize)"), out |-> out]
  ELSE IF ~nonce_size_ok(P, nonce)
  THEN [res |-> Err("Symmetric(InvalidNonceSize)"), out |-> out]
  ELSE IF Len(out) < required_len(P, plaintext)
  THEN [res |-> Err("Symmetric(OutputTooSmall)"), out |-> out]
  ELSE IF ~from_slice_ok(P, key, nonce)
  THEN [res |-> Panic, out |-> out]
  ELSE IF Len(plaintext) > Len(out)
  THEN [res |-> Panic, out |-> out]
  ELSE
    LET tag_buf == Drop(out, Len(plaintext))
        out_buf == copy_from_slice(Take(out, Len(plaintext)), plaintext)
        sealing == encrypt_in_place_detached(key, nonce,
                      unwrap_or_default(aad), out_buf)
    IN
    IF ~sealing.ok
    THEN [res |-> Err("Symmetric(Encryption)"), out |-> sealing.buf \o tag_buf]
    ELSE IF Len(tag_buf) < TAG_SIZE(P) \/ Len(sealing.tag) # TAG_SIZE(P)
    THEN [res |-> Panic, out |-> sealing.buf \o tag_buf]
    ELSE [res |-> Ok(required_len(P, plaintext)),
          out |-> sealing.buf \o write_tag(P, tag_buf, sealing.tag)]

(***************************************************************************)
(* AeadDecryptor::decrypt_to_buffer                                        *)
(***************************************************************************)
\* Variant: only the empty input is rejected.
ciphertext_too_short_only_empty(P, ciphertext_with_tag) ==
  Len(ciphertext_with_tag) = 0

ciphertext_too_short(P, ciphertext_with_tag) ==
  Len(ciphertext_with_tag) < TAG_SIZE(P)

\* Variant: the input is split NONCE_SIZE bytes from its end.
split_point_by_nonce(P, ciphertext_with_tag) ==
  Len(ciphertext_with_tag) - NONCE_SIZE(P)

split_point(P, ciphertext_with_tag) == Len(ciphertext_with_tag) - TAG_SIZE(P)

\* Variant: the provider's verdict is dropped.
open_result_ignored(ok, n) == Ok(n)

\* .map_err(|_| Error::Symmetric(SymmetricError::Decryption))?; Ok(len)
open_result(ok, n) == IF ok THEN Ok(n) ELSE Err("Symmetric(Decryption)")

\* Variant: the output must have room for the tag as well.
decrypt_split_room_for_tag(P, key, nonce, ciphertext_with_tag, out, aad) ==
  LET mid == split_point(P, ciphertext_with_tag) IN
  IF mid < 0 \/ mid > Len(ciphertext_with_tag)
  THEN [res |-> Panic, out |-> out]
  ELSE
    LET ciphertext == Take(ciphertext_with_tag, mid)
        tag == Drop(ciphertext_with_tag, mid)
    IN
    IF Len(out) < Len(ciphertext_with_tag)
    THEN [res |-> Err("Symmetric(OutputTooSmall)"), out |-> out]
    ELSE IF ~from_slice_ok(P, key, nonce) \/ Len(tag) # CoreTagSize(P)
    THEN [res |-> Panic, out |-> out]
    ELSE
      LET rest == Drop(out, Len(ciphertext))
          out_buf == copy_from_slice(Take(out, Len(ciphertext)), ciphertext)
          opening == decrypt_in_place_detached(key, nonce,
                        unwrap_or_default(aad), out_buf, tag)
      IN [res |-> open_result(opening.ok, Len(ciphertext)),
          out |-> opening.buf \o rest]

\* From the split of the input to the return.
decrypt_split(P, key, nonce, ciphertext_with_tag, out, aad) ==
  LET mid == split_point(P, ciphertext_with_tag) IN
  IF mid < 0 \/ mid > Len(ciphertext_with_tag)
  THEN [res |-> Panic, out |-> out]
  ELSE
    LET ciphertext == Take(ciphertext_with_tag, mid)
        tag == Drop(ciphertext_with_tag, mid)
    IN
    IF Len(out) < Len(ciphertext)
    THEN [res |-> Err("Symmetric(OutputTooSmall)"), out |-> out]
    ELSE IF ~from_slice_ok(P, key, nonce) \/ Len(tag) # CoreTagSize(P)
    THEN [res |-> Panic, out |-> out]
    ELSE
      LET rest == Drop(out, Len(ciphertext))
          out_buf == copy_from_slice(Take(out, Len(ciphertext)), ciphertext)
          opening == decrypt_in_place_detached(key, nonce,
                        unwrap_or_default(aad), out_buf, tag)
      IN [res |-> open_result(opening.ok, Len(ciphertext)),
          out |-> opening.buf \o rest]

\* Variant: the ciphertext is copied into the output before the nonce size
\* is checked.
decrypt_to_buffer_copy_first(P, key, nonce, ciphertext_with_tag, out, aad) ==
  IF ~key_size_ok(P, key)
  THEN [res |-> Err("Symmetric(InvalidKeySize)"), out |-> out]
  ELSE IF ciphertext_too_short(P, ciphertext_with_tag)
  THEN [res |-> Err("Symmetric(InvalidCiphertext)"), out |-> out]
  ELSE IF ~nonce_size_ok(P, nonce)
  THEN LET n == split_point(P, ciphertext_with_tag)
           m == IF n < Len(out) THEN n ELSE Len(out)
       IN [res |-> Err("Symmetric(InvalidNonceSize)"),
           out |-> Take(ciphertext_with_tag, m) \o Drop(out, m)]
  ELSE decrypt_split(P, key, nonce, ciphertext_with_tag, out, aad)

decrypt_to_buffer(P, key, nonce, ciphertext_with_tag, out, aad) ==
  IF ~key_size_ok(P, key)
  THEN [res |-> Err("Symmetric(InvalidKeySize)"), out |-> out]
  ELSE IF ~nonce_size_ok(P, nonce)
  THEN [res |-> Err("Symmetric(InvalidNonceSize)"), out |-> out]
  ELSE IF ciphertext_too_short(P, ciphertext_with_tag)
  THEN [res |-> Err("Symmetric(InvalidCiphertext)"), out |-> out]
  ELSE decrypt_split(P, key, nonce, ciphertext_with_tag, out, aad)

(***************************************************************************)
(* AeadEncryptor::encrypt / AeadDecryptor::decrypt: the allocating forms.  *)
(* They allocate the output themselves, run the buffer form on it and      *)
(* return the written prefix.                                              *)
(***************************************************************************)
Zeros(n) == [i \in 1..n |-> 0]

encrypt(P, key, nonce, plaintext, aad) ==
  LET r == encrypt_to_buffer(P, key, nonce, plaintext,
                             Zeros(Len(plaintext) + TAG_SIZE(P)), aad)
  IN IF r.res.tag = "Ok"
     THEN [res |-> r.res, out |-> Take(r.out, r.res.n)]
     ELSE [res |-> r.res, out |-> <<>>]

decrypt(P, key, nonce, ciphertext_with_tag, aad) ==
  LET r == decrypt_to_buffer(P, key, nonce, ciphertext_with_tag,
                             Zeros(Len(ciphertext_with_tag)), aad)
  IN IF r.res.tag = "Ok"
     THEN [res |-> r.res, out |-> Take(r.out, r.res.n)]
     ELSE [res |-> r.res, out |-> <<>>]

(***************************************************************************)
(* Inputs the callers draw.                                                *)
(***************************************************************************)
KeyOf(len, b) == [i \in 1..len |-> (16 * b + i) % 256]
NonceOf(len, b) == [i \in 1..len |-> (32 * b + 7 * i) % 256]

OtherScheme(P) ==
  IF P = "ChaCha20Poly1305" THEN "XChaCha20Poly1305" ELSE "ChaCha20Poly1305"

ValidKeys(P) == {KeyOf(KEY_SIZE(P), b) : b \in KeyFills}
BadKeys(P) == {KeyOf(KEY_SIZE(P) - 1, 1), KeyOf(KEY_SIZE(P) + 1, 1)}
ValidNonces(P) == {NonceOf(NONCE_SIZE(P), b) : b \in NonceFills}
BadNonces(P) ==
  {NonceOf(NONCE_SIZE(P) + 1, 1), NonceOf(NONCE_SIZE(OtherScheme(P)), 1)}

Plaintexts == SeqsUpTo(PtBytes, MaxPtLen)
Aads == {None} \cup {Some(b) : b \in SeqsUpTo(AadByteSet, MaxAadLen)}

Buffer(len) == [i \in 1..len |-> FillByte]
OutLens(need) == {0} \cup {n \in (need - 1)..(need + ExtraOut) : n >= 0}

FlipBit(s, i, k) == [s EXCEPT ![i] = Xor(s[i], Pow2(k))]

EncOps == {"encrypt_to_buffer", "encrypt"}
DecOps == {"decrypt_to_buffer", "decrypt"}

NoCall == [op |-> "none", P |-> "none", key |-> <<>>, nonce |-> <<>>,
           input |-> <<>>, aad |-> None, before |-> <<>>]

Args(op, P, key, nonce, input, aad, before) ==
  [op |-> op, P |-> P, key |-> key, nonce |-> nonce, input |-> input,
   aad |-> aad, before |-> before]

\* Arguments of the encryption calls: every plaintext and AAD under valid
\* key and nonce, and every combination of key and nonce sizes.
EncInputsOf(P) ==
  {Args("encrypt_to_buffer", P, t[1], t[2], t[3], t[4], Buffer(t[5])) :
     t \in {u \in ValidKeys(P) \X ValidNonces(P) \X Plaintexts \X Aads
                    \X (0..(MaxPtLen + TAG_SIZE(P) + ExtraOut)) :
              u[5] \in OutLens(Len(u[3]) + TAG_SIZE(P))}}
  \cup
  {Args("encrypt", P, t[1], t[2], t[3], t[4], <<>>) :
     t \in ValidKeys(P) \X ValidNonces(P) \X Plaintexts \X Aads}
  \cup
  {Args(t[1], P, t[2], t[3], t[4], None,
        IF t[1] = "encrypt" THEN <<>> ELSE Buffer(t[5])) :
     t \in EncOps \X (ValidKeys(P) \cup BadKeys(P))
                  \X (ValidNonces(P) \cup BadNonces(P))
                  \X {<<>>, <<0>>} \X {TAG_SIZE(P), TAG_SIZE(P) + 1}}

EncInputs == UNION {EncInputsOf(P) : P \in Schemes}

\* Arguments of the decryption calls on a ciphertext ct sealed by the call
\* enc: the genuine ciphertext under every AAD and output capacity, and
\* under every combination of key and nonce sizes; every single-bit flip of
\* it; every proper prefix of it.
DecInputs(enc, ct) ==
  LET P == enc.P
      ptlen == Len(enc.input)
      small == IF ptlen > 0 THEN ptlen - 1 ELSE 0
      sameForm == IF enc.op = "encrypt" THEN "decrypt" ELSE "decrypt_to_buffer"
      Buf(op, n) == IF op = "decrypt" THEN <<>> ELSE Buffer(n)
  IN
  {Args("decrypt_to_buffer", P, enc.key, enc.nonce, ct, t[1], Buffer(t[2])) :
     t \in Aads \X OutLens(ptlen)}
  \cup
  {Args("decrypt", P, enc.key, enc.nonce, ct, aad, <<>>) : aad \in Aads}
  \cup
  {Args(t[1], P, t[2], t[3], ct, enc.aad, Buf(t[1], t[4])) :
     t \in DecOps \X ({enc.key} \cup BadKeys(P))
                  \X ({enc.nonce} \cup BadNonces(P)) \X {small, ptlen}}
  \cup
  {Args(sameForm, P, enc.key, enc.nonce, FlipBit(ct, t[1], t[2]), enc.aad,
        Buf(sameForm, ptlen)) :
     t \in (1..Len(ct)) \X FlipBits}
  \cup
  {Args(t[1], P, enc.key, enc.nonce, Take(ct, t[2]), enc.aad,
        Buf(t[1], ptlen)) :
     t \in DecOps \X (0..(Len(ct) - 1))}
  \cup
  {Args(t[1], P, t[2], t[3], Take(ct, t[4]), enc.aad, Buf(t[1], t[5])) :
     t \in DecOps \X {enc.key, KeyOf(KEY_SIZE(P) + 1, 1)}
                  \X {enc.nonce, NonceOf(NONCE_SIZE(P) + 1, 1)}
                  \X {0, TAG_SIZE(P) - 1} \X {0, ptlen}}

(***************************************************************************)
(* The AEAD state machine: a caller seals a message, then opens what the   *)
(* output holds.  call records the arguments of the last call and the      *)
(* output buffer as it was before it; sealed records the encryption whose  *)
(* ciphertext the last decryption call was derived from.                   *)
(***************************************************************************)
Run(a) ==
  CASE a.op = "encrypt_to_buffer" ->
         encrypt_to_buffer(a.P, a.key, a.nonce, a.input, a.before, a.aad)
    [] a.op = "encrypt" -> encrypt(a.P, a.key, a.nonce, a.input, a.aad)
    [] a.op = "decrypt_to_buffer" ->
         decrypt_to_buffer(a.P, a.key, a.nonce, a.input, a.before, a.aad)
    [] OTHER -> decrypt(a.P, a.key, a.nonce, a.input, a.aad)

NoSealed == [enc |-> NoCall, ct |-> <<>>]


Encrypt ==
  /\ call.op = "none"
  /\ \E a \in EncInputs :
       LET r == Run(a) IN
       /\ call' = a
       /\ output' = r.out
       /\ result' = r.res
  /\ UNCHANGED <<sealed, exceptAead>>

Decrypt ==
  /\ call.op \in EncOps
  /\ result.tag = "Ok"
  /\ LET ct == Take(output, result.n) IN
     \E a \in DecInputs(call, ct) :
       LET r == Run(a) IN
       /\ call' = a
       /\ output' = r.out
       /\ result' = r.res
       /\ sealed' = [enc |-> call, ct |-> ct]
  /\ UNCHANGED exceptAead

NextAead == Encrypt \/ Decrypt

(***************************************************************************)
(* Dilithium.  The provider's key and signature sizes per security level   *)
(* are scaled down; every level keeps its own sizes.                       *)
(***************************************************************************)
SizeUnit == 2
MaxMsgLen == 2
NumSeeds == 2

MsgBytes == {0, 1}
Coins == {0, 1}

Levels == {"Dilithium2", "Dilithium3", "Dilithium5"}

Rank(P) == CASE P = "Dilithium2" -> 1 [] P = "Dilithium3" -> 2 [] OTHER -> 3

public_key_bytes(P) == SizeUnit + Rank(P)
secret_key_bytes(P) == 2 * SizeUnit + Rank(P) + 1
signature_bytes(P) == 2 * SizeUnit + Rank(P)

\* Provider (pqcrypto-dilithium), by contract: the public key is a function
\* of the secret key, a signature binds the public key, a digest of the
\* message and the signer's coin, and verification recomputes it.
PublicOf(P, sk) ==
  [i \in 1..public_key_bytes(P) |-> (7 * SumSeq(sk) + 13 * i) % 256]

RECURSIVE DigestTo(_, _)
DigestTo(msg, n) ==
  IF n = 0 THEN 0 ELSE (msg[n] + 1 + 3 * DigestTo(Take(msg, n - 1), n - 1)) % 256

Digest(msg) == DigestTo(msg, Len(msg))

SignatureFor(P, pk, msg, coin) ==
  [i \in 1..signature_bytes(P) |->
     CASE i = 1 -> pk[1]
       [] i = 2 -> Digest(msg)
       [] i = 3 -> coin
       [] OTHER -> (pk[1] + Digest(msg) + i) % 256]

keypair_core(P, seed) ==
  LET sk == [i \in 1..secret_key_bytes(P) |-> (seed * i + Rank(P)) % 256]
  IN [pk |-> PublicOf(P, sk), sk |-> sk]

detached_sign(P, msg, sk, coin) == SignatureFor(P, PublicOf(P, sk), msg, coin)

verify_detached_signature(P, sig, msg, pk) ==
  /\ Len(sig) = signature_bytes(P)
  /\ \E coin \in Coins : sig = SignatureFor(P, pk, msg, coin)

\* pqcrypto_traits from_bytes: keys need the exact length, a detached
\* signature any length up to the scheme's signature size.
PqKeyDecodes(bytes, size) == Len(bytes) = size
PqDetachedSignatureDecodes(P, bytes) == Len(bytes) <= signature_bytes(P)

\* Variant: the provider's verdict is dropped.
params_verify_ignored(P, sig, msg, pk) == Ok(0)

\* DilithiumParams::verify
params_verify(P, sig, msg, pk) ==
  IF verify_detached_signature(P, sig, msg, pk)
  THEN Ok(0)
  ELSE Err("Signature(Verification)")

\* KeyGenerator::generate_keypair
generate_keypair(P, seed) ==
  LET kp == keypair_core(P, seed)
  IN [P |-> P, pk |-> kp.pk, sk |-> kp.sk]

\* Signer::sign
sign(P, private_key, message, coin) ==
  IF ~PqKeyDecodes(private_key, secret_key_bytes(P))
  THEN [res |-> Err("Signature(Signing)"), sig |-> <<>>]
  ELSE LET sig == detached_sign(P, message, private_key, coin)
       IN [res |-> Ok(Len(sig)), sig |-> sig]

\* Variant: the signature bytes are not decoded before verification.
verify_undecoded(P, public_key, message, signature) ==
  IF ~PqKeyDecodes(public_key, public_key_bytes(P))
  THEN Err("Key(InvalidEncoding)")
  ELSE params_verify(P, signature, message, public_key)

\* Verifier::verify
verify(P, public_key, message, signature) ==
  IF ~PqKeyDecodes(public_key, public_key_bytes(P))
  THEN Err("Key(InvalidEncoding)")
  ELSE IF ~PqDetachedSignatureDecodes(P, signature)
  THEN Err("Signature(InvalidSignature)")
  ELSE params_verify(P, signature, message, public_key)

Messages == SeqsUpTo(MsgBytes, MaxMsgLen)
Seeds == 1..NumSeeds

NoKeypair == [P |-> "none", pk |-> <<>>, sk |-> <<>>]
NoSigned == [msg |-> <<>>, res |-> Err("none"), sig |-> <<>>]
NoVerify == [P |-> "none", pk |-> <<>>, msg |-> <<>>, sig |-> <<>>]

\* Signature byte strings handed to verify: the genuine signature, its
\* single-bit flips, its prefixes (the empty one included), over-long
\* extensions, and other strings of the right length.
SigInputs(P, sig) ==
  {sig, sig \o <<0>>, sig \o sig, [i \in 1..signature_bytes(P) |-> 0]}
  \cup {Take(sig, n) : n \in 0..Len(sig)}
  \cup {FlipBit(sig, t[1], t[2]) : t \in (1..Len(sig)) \X {0, 7}}

(***************************************************************************)
(* ECDH over NIST P-256 (src/src/systems/asymmetric/traditional/ecdh.rs).  *)
(* The provider (p256 / elliptic_curve crates) is modelled by contract: a  *)
(* cyclic group of prime order, scaled down to the subgroup of order 11    *)
(* generated by 2 in the integers modulo 23, with one-byte scalars (1..10) *)
(* and points; its DER codecs check every field of the encoding.           *)
(***************************************************************************)
RngScalars == {3, 7, 10}

RECURSIVE ModExp(_, _)
ModExp(b, e) == IF e = 0 THEN 1 ELSE (b * ModExp(b, e - 1)) % 23

\* secret.public_key()
public_key(scalar) == ModExp(2, scalar)

\* ecdh::diffie_hellman(sk.to_nonzero_scalar(), pk.as_affine())
diffie_hellman(scalar, point) == ModExp(point, scalar)

\* DER: SEQUENCE tag, content length, then version and algorithm (PKCS#8
\* private key) or algorithm and point format (public key), then the key.
to_pkcs8_der(scalar) == <<48, 3, 0, 42, scalar>>
to_public_key_der(point) == <<48, 3, 42, 4, point>>

\* The scalar must be in 1..10.
from_pkcs8_der(bytes) ==
  IF /\ Len(bytes) = 5
     /\ Take(bytes, 4) = <<48, 3, 0, 42>>
     /\ bytes[5] \in 1..10
  THEN [ok |-> TRUE, scalar |-> bytes[5]]
  ELSE [ok |-> FALSE, scalar |-> 0]

\* The point must be a point of the group other than the identity.
from_public_key_der(bytes) ==
  IF /\ Len(bytes) = 5
     /\ Take(bytes, 4) = <<48, 3, 42, 4>>
     /\ \E k \in 1..10 : public_key(k) = bytes[5]
  THEN [ok |-> TRUE, point |-> bytes[5]]
  ELSE [ok |-> FALSE, point |-> 0]

\* EcdhParams::validate_public_key / validate_private_key
validate_public_key(bytes) ==
  IF from_public_key_der(bytes).ok
  THEN Ok(0)
  ELSE Err("KeyAgreement(InvalidPeerPublicKey)")

validate_private_key(bytes) ==
  IF from_pkcs8_der(bytes).ok THEN Ok(0) ELSE Err("Key(InvalidEncoding)")

\* Variant: the public key is not derived from the generated secret (it is
\* the encoding of the group generator).
ecdh_generate_keypair_public_of_generator(scalar, privEncodes, pubEncodes) ==
  IF ~privEncodes \/ ~pubEncodes
  THEN [res |-> Err("Key(GenerationFailed)"), pk |-> <<>>, sk |-> <<>>]
  ELSE [res |-> Ok(0), pk |-> to_public_key_der(2),
        sk |-> to_pkcs8_der(scalar)]

\* KeyGenerator::generate_keypair for EcdhScheme<EcdhP256Params>: scalar is
\* the draw of SecretKey::random; privEncodes / pubEncodes say whether the
\* provider's DER encoders succeed.
ecdh_generate_keypair(scalar, privEncodes, pubEncodes) ==
  LET point == public_key(scalar) IN
  IF ~privEncodes
  THEN [res |-> Err("Key(GenerationFailed)"), pk |-> <<>>, sk |-> <<>>]
  ELSE IF ~pubEncodes
  THEN [res |-> Err("Key(GenerationFailed)"), pk |-> <<>>, sk |-> <<>>]
  ELSE [res |-> Ok(0), pk |-> to_public_key_der(point),
        sk |-> to_pkcs8_der(scalar)]

\* Variant: the private key is decoded before the peer's public key.
agree_private_first(private_key, peer_public_key) ==
  LET pk == from_public_key_der(peer_public_key)
      sk == from_pkcs8_der(private_key)
  IN IF ~sk.ok
     THEN [res |-> Err("Key(InvalidEncoding)"), secret |-> <<>>]
     ELSE IF ~pk.ok
     THEN [res |-> Err("KeyAgreement(InvalidPeerPublicKey)"), secret |-> <<>>]
     ELSE LET secret == <<diffie_hellman(sk.scalar, pk.point)>>
          IN [res |-> Ok(Len(secret)), secret |-> secret]

\* KeyAgreement::agree
agree(private_key, peer_public_key) ==
  LET pk == from_public_key_der(peer_public_key) IN
  IF ~pk.ok
  THEN [res |-> Err("KeyAgreement(InvalidPeerPublicKey)"), secret |-> <<>>]
  ELSE
    LET sk == from_pkcs8_der(private_key) IN
    IF ~sk.ok
    THEN [res |-> Err("Key(InvalidEncoding)"), secret |-> <<>>]
    ELSE LET secret == <<diffie_hellman(sk.scalar, pk.point)>>
         IN [res |-> Ok(Len(secret)), secret |-> secret]

\* Byte strings a key value can hold when it did not come from from_bytes
\* or generate_keypair (the serde feature derives Deserialize for both key
\* types): a well-formed encoding cut short, extended, with a field changed,
\* with a key outside the group, or the encoding of the other key type.
Malformed(der, badKeys) ==
  {<<>>, Take(der, Len(der) - 1), der \o <<0>>,
   [der EXCEPT ![1] = 49], [der EXCEPT ![2] = 4], [der EXCEPT ![3] = 1]}
  \cup {[der EXCEPT ![Len(der)] = b] : b \in badKeys}

(***************************************************************************)
(* Key lifecycle (Key::from_bytes, TryFrom<&[u8]>, Key::to_bytes) of the   *)
(* four key types.  A key value is its byte buffer.                        *)
(***************************************************************************)
\* Variant: the secret key is checked against the public key's length.
DilithiumSecretKey_from_bytes_public_length(P, bytes) ==
  IF Len(bytes) # public_key_bytes(P)
  THEN [res |-> Err("Key(InvalidEncoding)"), bytes |-> <<>>]
  ELSE [res |-> Ok(Len(bytes)), bytes |-> bytes]

DilithiumSecretKey_from_bytes(P, bytes) ==
  IF Len(bytes) # secret_key_bytes(P)
  THEN [res |-> Err("Key(InvalidEncoding)"), bytes |-> <<>>]
  ELSE [res |-> Ok(Len(bytes)), bytes |-> bytes]

EcdhSchemes == {"EcdhP256"}

\* The key types and the parameter sets each is instantiated for.
KeyTypes ==
  ({"DilithiumPublicKey", "DilithiumSecretKey"} \X Levels)
  \cup ({"EcdhPublicKey", "EcdhPrivateKey"} \X EcdhSchemes)

\* Key::from_bytes of the four key types; TryFrom<&[u8]>::try_from calls it.
from_bytes(T, P, bytes) ==
  LET checked ==
        CASE T = "DilithiumPublicKey" ->
               IF Len(bytes) # public_key_bytes(P)
               THEN Err("Key(InvalidEncoding)") ELSE Ok(Len(bytes))
          [] T = "DilithiumSecretKey" ->
               DilithiumSecretKey_from_bytes(P, bytes).res
          [] T = "EcdhPublicKey" -> validate_public_key(bytes)
          [] OTHER -> validate_private_key(bytes)
  IN IF checked.tag = "Ok"
     THEN [res |-> Ok(Len(bytes)), bytes |-> bytes]
     ELSE [res |-> checked, bytes |-> <<>>]

\* Key::to_bytes of the four key types: Ok(self.bytes.to_vec()) for the ECDH
\* keys, self.bytes.to_vec() for the Dilithium keys.
to_bytes(T, key) == [res |-> Ok(Len(key)), bytes |-> key]

\* #[derive(Debug)] on the key structs: the struct's name, then each field
\* by name with its own Debug output; Zeroizing<Vec<u8>> and Vec<u8> print
\* the bytes they hold, PhantomData<P> prints the name of P.
fmt_debug(T, P, key) ==
  IF T \in {"DilithiumSecretKey", "EcdhPrivateKey"}
  THEN <<T, "bytes", "Zeroizing", key, "_params", "PhantomData", P>>
  ELSE <<T, "bytes", key, "_params", "PhantomData", P>>

\* The keypairs generate_keypair of a scheme can return.
GeneratedKeypairs(scheme) ==
  IF scheme \in Levels
  THEN {[scheme |-> scheme, pk |-> kp.pk, sk |-> kp.sk] :
          kp \in {generate_keypair(scheme, seed) : seed \in Seeds}}
  ELSE {[scheme |-> scheme, pk |-> kp.pk, sk |-> kp.sk] :
          kp \in {ecdh_generate_keypair(scalar, TRUE, TRUE) :
                    scalar \in RngScalars}}

\* Byte strings handed to from_bytes: the encodings of generated keys of
\* the scheme, each also cut short by one byte and extended by one, the
\* empty string, and for the DER formats the malformed encodings.
KeyInputs(o) ==
  LET base == UNION {{kp.pk, kp.sk} : kp \in GeneratedKeypairs(o.scheme)}
  IN base \cup {<<>>} \cup {Take(b, Len(b) - 1) : b \in base}
       \cup {b \o <<0>> : b \in base}
       \cup (IF o.scheme \in EcdhSchemes
             THEN Malformed(o.sk, {0, 11, 255})
                    \cup Malformed(o.pk, {0, 1, 5, 23, 255})
             ELSE {})

(***************************************************************************)
(* SymmetricKeyGenerator::generate_key.  The randomness source either      *)
(* fills the whole buffer or fails; fill names the bytes it delivers.      *)
(***************************************************************************)
\* OsRng: it fails, or delivers bytes that depend on the draw.
Rngs == {[ok |-> TRUE, fill |-> f] : f \in {1, 2}}
          \cup {[ok |-> FALSE, fill |-> 0]}

\* Variant: the buffer is allocated with the nonce size.
key_buffer_len_nonce_size(P) == NONCE_SIZE(P)

\* vec![0u8; P::KEY_SIZE]
key_buffer_len(P) == KEY_SIZE(P)

\* OsRng.try_fill_bytes(&mut key_bytes)
try_fill_bytes(rng, buf) ==
  IF rng.ok
  THEN [ok |-> TRUE,
        buf |-> [i \in 1..Len(buf) |-> (53 * rng.fill + 11 * i) % 256]]
  ELSE [ok |-> FALSE, buf |-> buf]

\* SymmetricKey::new: the key owns the bytes it is given.
SymmetricKey_new(bytes) == bytes

generate_key(P, rng) ==
  LET key_bytes == Zeros(key_buffer_len(P))
      filled == try_fill_bytes(rng, key_bytes)
  IN IF ~filled.ok
     THEN [res |-> Err("Key(GenerationFailed)"), key |-> <<>>]
     ELSE [res |-> Ok(Len(filled.buf)), key |-> SymmetricKey_new(filled.buf)]

(***************************************************************************)
(* Buffers that hold secret bytes.  heap lists the byte buffers the        *)
(* operations have allocated for private keys, shared secrets and          *)
(* symmetric keys: what a buffer is, whether its type wipes on drop        *)
(* (Zeroizing<Vec<u8>> and the provider types that zeroize do, Vec<u8> and *)
(* the provider's plain byte-array keys do not), the bytes its storage     *)
(* holds, and whether its owner still holds it.                            *)
(***************************************************************************)
MaxBuffers == 2

\* Zeroizing::new(bytes)
Zeroizing_new(kind, bytes) ==
  [kind |-> kind, wipes |-> TRUE, bytes |-> bytes, live |-> TRUE]

\* A value of another type: p256::SecretKey, der::SecretDocument and
\* ecdh::SharedSecret zeroize on drop; the pqcrypto keys (plain arrays) and
\* a Vec<u8> handed on as it is do not.
Plain(kind, wipes, bytes) ==
  [kind |-> kind, wipes |-> wipes, bytes |-> bytes, live |-> TRUE]

\* SymmetricKey: a byte buffer with secret-wipe-on-release semantics.
SymmetricKey_buffer(bytes) ==
  [kind |-> "SymmetricKey", wipes |-> TRUE, bytes |-> bytes, live |-> TRUE]

\* Drop: a wiping type zeroizes its storage (every byte is overwritten with
\* zero), then the storage is released.
drop(b) ==
  [b EXCEPT !.live = FALSE,
            !.bytes = IF b.wipes THEN Zeros(Len(b.bytes)) ELSE b.bytes]

\* What a call leaves behind: the buffers it returns, and its locals,
\* dropped when it returns.
Leaves(returned, locals) ==
  returned \o [i \in 1..Len(locals) |-> drop(locals[i])]

\* DilithiumScheme::generate_keypair
generate_keypair_buffers(P, seed) ==
  LET kp == generate_keypair(P, seed)
  IN Leaves(<<Zeroizing_new("DilithiumSecretKey", kp.sk)>>,
            <<Plain("PqSecretKey", FALSE, kp.sk)>>)

\* Signer::sign
sign_buffers(P, private_key) ==
  IF ~PqKeyDecodes(private_key, secret_key_bytes(P))
  THEN <<>>
  ELSE Leaves(<<>>, <<Plain("PqSecretKey", FALSE, private_key)>>)

\* Key::from_bytes of DilithiumSecretKey and EcdhPrivateKey
from_bytes_buffers(T, P, bytes) ==
  LET r == from_bytes(T, P, bytes)
  IN IF r.res.tag = "Ok"
     THEN Leaves(<<Zeroizing_new(T, r.bytes)>>, <<>>)
     ELSE <<>>

\* EcdhScheme::generate_keypair, with its two early returns
ecdh_generate_keypair_buffers(scalar, privEncodes, pubEncodes) ==
  LET secret == Plain("p256::SecretKey", TRUE, <<scalar>>)
      private_key_der == Plain("SecretDocument", TRUE, to_pkcs8_der(scalar))
      kp == ecdh_generate_keypair(scalar, privEncodes, pubEncodes)
  IN IF ~privEncodes
     THEN Leaves(<<>>, <<secret>>)
     ELSE IF ~pubEncodes
     THEN Leaves(<<>>, <<secret, private_key_der>>)
     ELSE Leaves(<<Zeroizing_new("EcdhPrivateKey", kp.sk)>>,
                 <<secret, private_key_der>>)

\* Variant: the shared secret is returned as a plain Vec<u8>.
agree_buffers_unwrapped(private_key, peer_public_key) ==
  LET r == agree(private_key, peer_public_key)
  IN IF r.res.tag # "Ok"
     THEN <<>>
     ELSE Leaves(<<Plain("SharedSecret", FALSE, r.secret)>>,
                 <<Plain("p256::SecretKey", TRUE,
                            <<from_pkcs8_der(private_key).scalar>>),
                   Plain("ecdh::SharedSecret", TRUE, r.secret)>>)

\* KeyAgreement::agree, with its two early returns
agree_buffers(private_key, peer_public_key) ==
  LET r == agree(private_key, peer_public_key)
  IN IF r.res.tag # "Ok"
     THEN <<>>
     ELSE Leaves(<<Zeroizing_new("SharedSecret", r.secret)>>,
                 <<Plain("p256::SecretKey", TRUE,
                            <<from_pkcs8_der(private_key).scalar>>),
                   Plain("ecdh::SharedSecret", TRUE, r.secret)>>)

\* SymmetricKeyGenerator::generate_key, with its early return
generate_key_buffers(P, rng) ==
  LET g == generate_key(P, rng)
  IN IF g.res.tag = "Ok"
     THEN Leaves(<<SymmetricKey_buffer(g.key)>>, <<>>)
     ELSE Leaves(<<>>, <<Plain("Vec", FALSE, Zeros(key_buffer_len(P)))>>)

(***************************************************************************)
(* Sequences of AEAD calls.  The capability keeps nothing between calls;   *)
(* what a caller can carry from one call to the next is the output buffer, *)
(* which then still holds what the earlier call wrote.                     *)
(***************************************************************************)
SeqPlaintexts ==
  {[i \in 1..n |-> IF i % 2 = 1 THEN 0 ELSE 255] : n \in 0..MaxPtLen}

\* The calls that can follow the call recorded in r: sealing any plaintext
\* under the same key and nonce again, and opening the ciphertext r
\* produced, under either AAD.  A call that needs n bytes of output gets a
\* fresh buffer or, when it has that length, the buffer r left, still
\* holding what that call wrote.
SeqCalls(P, r) ==
  LET SeqAads == {None, Some(<<1>>)}
      Buffers(n) == {Buffer(n)} \cup (IF Len(r.out) = n THEN {r.out} ELSE {})
  IN
  UNION {{Args("encrypt_to_buffer", P, t[1], t[2], t[3], t[4], b) :
            b \in Buffers(Len(t[3]) + TAG_SIZE(P))} :
         t \in ValidKeys(P) \X ValidNonces(P) \X SeqPlaintexts \X SeqAads}
  \cup
  {Args("encrypt", P, t[1], t[2], t[3], t[4], <<>>) :
     t \in ValidKeys(P) \X ValidNonces(P) \X SeqPlaintexts \X SeqAads}
  \cup
  (IF r.call.op \in EncOps /\ r.res.tag = "Ok" /\ r.call.P = P
   THEN LET ct == Take(r.out, r.res.n) IN
        {Args("decrypt", P, r.call.key, r.call.nonce, ct, aad, <<>>) :
           aad \in SeqAads}
        \cup
        UNION {{Args("decrypt_to_buffer", P, r.call.key, r.call.nonce, ct,
                     aad, b) : b \in Buffers(Len(r.call.input))} :
               aad \in SeqAads}
   ELSE {})

(***************************************************************************)
(* Concurrent calls.  Each thread runs one capability operation, statement *)
(* by statement, on its own output buffer; the threads share the key       *)
(* values, which no statement writes.                                      *)
(***************************************************************************)
Threads == {1, 2}

\* The calls a thread can make, all under the keys the threads share by
\* reference: sealing and opening in a buffer of its own (of the needed size
\* or one byte short), opening a ciphertext with a bit flipped, signing,
\* verifying against the signed and against another message, and agreeing
\* with a well-formed and a malformed peer key.
ConcCalls ==
  LET ThreadCall(op, P, key, nonce, input, aad, before, extra) ==
        [op |-> op, P |-> P, key |-> key, nonce |-> nonce, input |-> input,
         aad |-> aad, before |-> before, extra |-> extra]
      SharedKey(P) == KeyOf(KEY_SIZE(P), 1)
      SharedNonce(P) == NonceOf(NONCE_SIZE(P), 1)
      SharedSigner(P) == generate_keypair(P, 1)
      SharedAlice == ecdh_generate_keypair(3, TRUE, TRUE)
      SharedBob == ecdh_generate_keypair(7, TRUE, TRUE)
  IN
  UNION {
    {ThreadCall("encrypt_to_buffer", P, SharedKey(P), SharedNonce(P), pt,
                Some(<<1>>), Buffer(n), <<>>) :
       n \in {Len(pt) + TAG_SIZE(P) - 1, Len(pt) + TAG_SIZE(P)}}
    \cup
    {ThreadCall("decrypt_to_buffer", P, SharedKey(P), SharedNonce(P), ct,
                Some(<<1>>), Buffer(Len(pt)), <<>>) :
       ct \in LET sealed_ct == encrypt(P, SharedKey(P), SharedNonce(P), pt,
                                       Some(<<1>>)).out
              IN {sealed_ct, FlipBit(sealed_ct, Len(sealed_ct), 0)}}
    : <<P, pt>> \in Schemes \X SeqPlaintexts}
  \cup
  UNION {
    {ThreadCall("sign", P, SharedSigner(P).sk, <<>>, msg, None, <<>>, <<0>>)}
    \cup
    {ThreadCall("verify", P, SharedSigner(P).pk, <<>>, m, None, <<>>,
                sign(P, SharedSigner(P).sk, msg, 0).sig) : m \in {msg, <<1, 1>>}}
    : <<P, msg>> \in Levels \X {<<>>, <<1>>}}
  \cup
  {ThreadCall("agree", "EcdhP256", t[1], <<>>, <<>>, None, <<>>, t[2]) :
     t \in {<<SharedAlice.sk, SharedBob.pk>>, <<SharedBob.sk, SharedAlice.pk>>,
            <<SharedAlice.sk, to_public_key_der(0)>>,
            <<SharedAlice.pk, SharedBob.pk>>}}

\* Variant: every call works in the buffer of the first thread.
work_buffer_of_first_thread(t) == 1

\* output: &mut [u8], the exclusive borrow of the caller's own buffer.
work_buffer(t) == t

(***************************************************************************)
(* Algorithm identity.  An item is <<v>> where it is declared with the      *)
(* value v, and <<>> where the type does not declare it.                   *)
(***************************************************************************)
MaxQueries == 2

\* impl SchemeParams for <marker>: const NAME.  The Dilithium markers
\* implement DilithiumParams only, which declares no NAME.
SchemeParams_NAME(P) ==
  CASE P = "ChaCha20Poly1305" -> <<"ChaCha20-Poly1305">>
    [] P = "XChaCha20Poly1305" -> <<"XChaCha20-Poly1305">>
    [] P = "EcdhP256" -> <<"ECDH-P256">>
    [] OTHER -> <<>>

\* impl SchemeParams for <marker>: const ID (0x02_02_01_01, 0x02_02_02_01,
\* 0x01_01_03_01).
SchemeParams_ID(P) ==
  CASE P = "ChaCha20Poly1305" -> <<33685761>>
    [] P = "XChaCha20Poly1305" -> <<33686017>>
    [] P = "EcdhP256" -> <<16843521>>
    [] OTHER -> <<>>

\* impl Algorithm for <scheme>: fn name() { P::NAME.to_string() }.
\* DilithiumScheme declares no name(): it declares const NAME = "Dilithium",
\* the same for its three levels.
name(P) ==
  IF P \in Schemes \cup EcdhSchemes THEN SchemeParams_NAME(P) ELSE <<>>

\* impl Algorithm for <scheme>: const ID: u32 = P::ID.
\* DilithiumScheme declares no ID.
ID(P) ==
  IF P \in Schemes \cup EcdhSchemes THEN SchemeParams_ID(P) ELSE <<>>

Init ==
  /\ call = NoCall
  /\ output = <<>>
  /\ result = Ok(0)
  /\ sealed = NoSealed
  /\ keypair = NoKeypair
  /\ signed = NoSigned
  /\ vcall = NoVerify
  /\ vresult = Ok(0)
  /\ pairs = <<>>
  /\ prev = [who |-> "none", sk |-> <<>>, pk |-> <<>>,
             res |-> Err("none"), secret |-> <<>>]
  /\ last = [who |-> "none", sk |-> <<>>, pk |-> <<>>,
             res |-> Err("none"), secret |-> <<>>]
  /\ origin = [scheme |-> "none", pk |-> <<>>, sk |-> <<>>]
  /\ kcall = [fn |-> "none", T |-> "none", P |-> "none", input |-> <<>>]
  /\ kresult = [res |-> Err("none"), bytes |-> <<>>]
  /\ kbytes = [res |-> Err("none"), bytes |-> <<>>]
  /\ printed = <<>>
  /\ gen = [P |-> "none", rng |-> [ok |-> FALSE, fill |-> 0],
            res |-> Err("none"), key |-> <<>>]
  /\ used = [call |-> NoCall, res |-> Err("none")]
  /\ heap = <<>>
  /\ remembered = [call |-> NoCall, res |-> Err("none"), out |-> <<>>]
  /\ latest = [call |-> NoCall, res |-> Err("none"), out |-> <<>>]
  /\ tcall = [t \in Threads |->
                [op |-> "none", P |-> "none", key |-> <<>>, nonce |-> <<>>,
                 input |-> <<>>, aad |-> None, before |-> <<>>,
                 extra |-> <<>>]]
  /\ tpc = [t \in Threads |-> "idle"]
  /\ tres = [t \in Threads |-> Err("none")]
  /\ bufs = [t \in Threads |-> <<>>]
  /\ tlocal = [t \in Threads |-> <<>>]
  /\ idlog = <<>>

GenerateKeypair ==
  /\ keypair = NoKeypair
  /\ \E P \in Levels, seed \in Seeds : keypair' = generate_keypair(P, seed)
  /\ UNCHANGED <<signed, vcall, vresult, exceptSig>>

Sign ==
  /\ keypair # NoKeypair
  /\ signed = NoSigned
  /\ \E msg \in Messages, coin \in Coins :
       LET r == sign(keypair.P, keypair.sk, msg, coin)
       IN signed' = [msg |-> msg, res |-> r.res, sig |-> r.sig]
  /\ UNCHANGED <<keypair, vcall, vresult, exceptSig>>

Verify ==
  /\ signed # NoSigned
  /\ signed.res.tag = "Ok"
  /\ vcall = NoVerify
  /\ \E msg \in Messages, sig \in SigInputs(keypair.P, signed.sig),
        seed \in Seeds :
       LET pk == generate_keypair(keypair.P, seed).pk
       IN /\ vcall' = [P |-> keypair.P, pk |-> pk, msg |-> msg, sig |-> sig]
          /\ vresult' = verify(keypair.P, pk, msg, sig)
  /\ UNCHANGED <<keypair, signed, exceptSig>>

NextSig == GenerateKeypair \/ Sign \/ Verify

(***************************************************************************)
(* Key agreement: two parties generate their keypairs independently, then  *)
(* agreements are computed.  who names the arguments of an agreement:      *)
(* "ab" is agree(A.private, B.public), "ba" is agree(B.private, A.public), *)
(* "re" is agree(from_bytes(to_bytes(A.private)), B.public), and "raw" is  *)
(* an agreement on key values that hold arbitrary bytes.                   *)
(***************************************************************************)
EcdhGenerateKeypair ==
  /\ Len(pairs) < 2
  /\ \E scalar \in RngScalars, privEncodes \in BOOLEAN, pubEncodes \in BOOLEAN :
       LET kp == ecdh_generate_keypair(scalar, privEncodes, pubEncodes) IN
       pairs' = IF kp.res.tag = "Ok"
                THEN Append(pairs, [pk |-> kp.pk, sk |-> kp.sk])
                ELSE pairs
  /\ UNCHANGED <<prev, last, exceptEcdh>>

\* agree on the two keypairs, on A's private key written to bytes and read
\* back (a failure of to_bytes or from_bytes is then the result of the
\* whole), and on key values that hold arbitrary bytes.
Agree ==
  /\ Len(pairs) = 2
  /\ prev.who = "none"
  /\ LET A == pairs[1]
         B == pairs[2]
         Agreed(who, sk, pk) ==
           LET r == agree(sk, pk)
           IN [who |-> who, sk |-> sk, pk |-> pk, res |-> r.res,
               secret |-> r.secret]
         enc == to_bytes("EcdhPrivateKey", A.sk)
         dec == from_bytes("EcdhPrivateKey", "EcdhP256", enc.bytes)
         Failed(res) ==
           [who |-> "re", sk |-> <<>>, pk |-> <<>>, res |-> res,
            secret |-> <<>>]
         Reagreed ==
           IF enc.res.tag # "Ok" THEN Failed(enc.res)
           ELSE IF dec.res.tag # "Ok" THEN Failed(dec.res)
           ELSE Agreed("re", dec.bytes, B.pk)
     IN \E a \in {Agreed("ab", A.sk, B.pk), Agreed("ba", B.sk, A.pk), Reagreed}
                 \cup {Agreed("raw", t[1], t[2]) :
                         t \in ({A.sk, B.pk} \cup Malformed(A.sk, {0, 11, 255}))
                               \X ({B.pk, A.sk}
                                     \cup Malformed(B.pk, {0, 1, 5, 23, 255}))} :
          /\ last' = a
          /\ prev' = last
  /\ UNCHANGED <<pairs, exceptEcdh>>

(***************************************************************************)
(* Key lifecycle: a keypair is generated, a key is read from bytes, the    *)
(* key read is written back to bytes, and the private keys at hand (the    *)
(* generated one and the one read) are formatted with {:?}.                *)
(***************************************************************************)
KeyGenerate ==
  /\ origin.scheme = "none"
  /\ \E scheme \in Levels \cup EcdhSchemes :
       \E kp \in GeneratedKeypairs(scheme) : origin' = kp
  /\ UNCHANGED <<kcall, kresult, kbytes, printed, exceptKey>>

KeyFromBytes ==
  /\ origin.scheme # "none"
  /\ kcall.fn = "none"
  /\ \E fn \in {"from_bytes", "try_from"}, tp \in KeyTypes,
        input \in KeyInputs(origin) :
       /\ kcall' = [fn |-> fn, T |-> tp[1], P |-> tp[2], input |-> input]
       /\ kresult' = from_bytes(tp[1], tp[2], input)
  /\ UNCHANGED <<origin, kbytes, printed, exceptKey>>

KeyToBytes ==
  /\ kresult.res.tag = "Ok"
  /\ kbytes.res = Err("none")
  /\ kbytes' = to_bytes(kcall.T, kresult.bytes)
  /\ UNCHANGED <<origin, kcall, kresult, printed, exceptKey>>

KeyDebug ==
  /\ kcall.T = (IF origin.scheme \in Levels THEN "DilithiumSecretKey"
                                             ELSE "EcdhPrivateKey")
  /\ kcall.P = origin.scheme
  /\ kresult.res.tag = "Ok"
  /\ printed = <<>>
  /\ printed' = <<fmt_debug(kcall.T, origin.scheme, origin.sk),
                  fmt_debug(kcall.T, kcall.P, kresult.bytes)>>
  /\ UNCHANGED <<origin, kcall, kresult, kbytes, exceptKey>>

(***************************************************************************)
(* Key generation: a key is generated for a scheme and then handed to the  *)
(* buffer forms of the same scheme.                                        *)
(***************************************************************************)
GenerateKey ==
  /\ gen.P = "none"
  /\ \E P \in Schemes, rng \in Rngs :
       LET g == generate_key(P, rng)
       IN gen' = [P |-> P, rng |-> rng, res |-> g.res, key |-> g.key]
  /\ UNCHANGED <<used, exceptGen>>

\* Calls of the buffer forms under the generated key: sealing every
\* plaintext and AAD, and opening what the sealing wrote.
UseKey ==
  /\ gen.res.tag = "Ok"
  /\ used.call = NoCall
  /\ LET P == gen.P
         key == gen.key
     IN \E a \in
          {Args("encrypt_to_buffer", P, key, t[1], t[2], t[3],
                Buffer(Len(t[2]) + TAG_SIZE(P))) :
             t \in (ValidNonces(P) \cup BadNonces(P)) \X Plaintexts \X Aads}
          \cup
          {Args("decrypt_to_buffer", P, key, t[1],
                Take(encrypt(P, key, t[1], t[2], t[3]).out,
                     Len(t[2]) + TAG_SIZE(P)),
                t[3], Buffer(Len(t[2]))) :
             t \in ValidNonces(P) \X Plaintexts \X Aads} :
          used' = [call |-> a, res |-> Run(a).res]
  /\ UNCHANGED <<gen, exceptGen>>

(***************************************************************************)
(* Secret buffers: keys and secrets are created by generation or from      *)
(* bytes, used by the operations, cloned, and released by their owners.    *)
(***************************************************************************)
MemGenerate ==
  /\ Len(heap) < MaxBuffers
  /\ \/ \E P \in Levels :
          heap' = heap \o generate_keypair_buffers(P, 1)
     \/ \E scalar \in RngScalars, privEncodes \in BOOLEAN,
           pubEncodes \in BOOLEAN :
          heap' = heap \o ecdh_generate_keypair_buffers(scalar, privEncodes,
                                                        pubEncodes)
     \/ \E P \in Schemes, rng \in Rngs :
          heap' = heap \o generate_key_buffers(P, rng)
  /\ UNCHANGED exceptMem

MemFromBytes ==
  /\ Len(heap) < MaxBuffers
  /\ \E tp \in {t \in KeyTypes :
                  t[1] \in {"DilithiumSecretKey", "EcdhPrivateKey"}} :
       \E kp \in GeneratedKeypairs(tp[2]) :
         \E bytes \in {kp.sk, Take(kp.sk, Len(kp.sk) - 1)} :
           heap' = heap \o from_bytes_buffers(tp[1], tp[2], bytes)
  /\ UNCHANGED exceptMem

MemUse ==
  /\ Len(heap) < MaxBuffers
  /\ \E i \in 1..Len(heap) :
       /\ heap[i].live
       /\ heap[i].kind \in {"DilithiumSecretKey", "EcdhPrivateKey"}
       /\ \/ \* #[derive(Clone)]: Zeroizing<Vec<u8>>::clone
             heap' = Append(heap, Zeroizing_new(heap[i].kind, heap[i].bytes))
          \/ \* Key::to_bytes: self.bytes.to_vec()
             heap' = Append(heap, Plain("Vec", FALSE,
                              to_bytes(heap[i].kind, heap[i].bytes).bytes))
          \/ /\ heap[i].kind = "DilithiumSecretKey"
             /\ \E P \in Levels :
                  /\ Len(heap[i].bytes) = secret_key_bytes(P)
                  /\ heap' = heap \o sign_buffers(P, heap[i].bytes)
          \/ /\ heap[i].kind = "EcdhPrivateKey"
             /\ \E scalar \in RngScalars :
                  \E pk \in {to_public_key_der(public_key(scalar)),
                             to_public_key_der(0)} :
                    heap' = heap \o agree_buffers(heap[i].bytes, pk)
  /\ UNCHANGED exceptMem

MemRelease ==
  /\ \E i \in 1..Len(heap) :
       /\ heap[i].live
       /\ heap' = [heap EXCEPT ![i] = drop(heap[i])]
  /\ UNCHANGED exceptMem

(***************************************************************************)
(* A caller makes call after call with one scheme, without end.  latest is *)
(* the last call with its result and the buffer it left; remembered is one *)
(* of the calls made before it.                                            *)
(***************************************************************************)
CallAgain ==
  /\ \E P \in {Q \in Schemes : latest.call = NoCall \/ latest.call.P = Q} :
       \E a \in SeqCalls(P, latest) :
         latest' = [call |-> a, res |-> Run(a).res, out |-> Run(a).out]
  /\ remembered' \in {remembered, latest}
  /\ UNCHANGED exceptSeq

(***************************************************************************)
(* The statements of the operations, one thread at a time.                 *)
(***************************************************************************)
Goto(t, pc) ==
  /\ tpc' = [tpc EXCEPT ![t] = pc]
  /\ UNCHANGED <<tcall, tres>>

Return(t, res) ==
  /\ tpc' = [tpc EXCEPT ![t] = "done"]
  /\ tres' = [tres EXCEPT ![t] = res]
  /\ UNCHANGED tcall

Start ==
  /\ \E t \in Threads :
       /\ tpc[t] = "idle"
       /\ \E a \in ConcCalls :
            /\ tcall' = [tcall EXCEPT ![t] = a]
            /\ bufs' = [bufs EXCEPT ![t] = a.before]
       /\ tpc' = [tpc EXCEPT ![t] = "check"]
  /\ UNCHANGED <<tres, tlocal, exceptConc>>

\* encrypt_to_buffer, one statement at a time: the three size checks;
\* out_buf.copy_from_slice(plaintext); cipher.encrypt_in_place_detached;
\* tag_buf[..P::TAG_SIZE].copy_from_slice(&tag) and Ok(required_len).
Encrypt_step ==
  /\ \E t \in Threads :
       LET a == tcall[t]
           w == work_buffer(t)
           n == Len(a.input)
       IN
       /\ a.op = "encrypt_to_buffer"
       /\ \/ /\ tpc[t] = "check"
             /\ IF ~key_size_ok(a.P, a.key)
                THEN Return(t, Err("Symmetric(InvalidKeySize)"))
                ELSE IF ~nonce_size_ok(a.P, a.nonce)
                THEN Return(t, Err("Symmetric(InvalidNonceSize)"))
                ELSE IF Len(bufs[w]) < required_len(a.P, a.input)
                THEN Return(t, Err("Symmetric(OutputTooSmall)"))
                ELSE Goto(t, "copy")
             /\ UNCHANGED <<bufs, tlocal>>
          \/ /\ tpc[t] = "copy"
             /\ bufs' = [bufs EXCEPT ![w] =
                           copy_from_slice(Take(bufs[w], n), a.input)
                             \o Drop(bufs[w], n)]
             /\ Goto(t, "seal")
             /\ UNCHANGED tlocal
          \/ /\ tpc[t] = "seal"
             /\ LET sealing == encrypt_in_place_detached(a.key, a.nonce,
                                 unwrap_or_default(a.aad), Take(bufs[w], n))
                IN /\ bufs' = [bufs EXCEPT ![w] =
                                 sealing.buf \o Drop(bufs[w], n)]
                   /\ tlocal' = [tlocal EXCEPT ![t] = sealing.tag]
                   /\ IF sealing.ok
                      THEN Goto(t, "tag")
                      ELSE Return(t, Err("Symmetric(Encryption)"))
          \/ /\ tpc[t] = "tag"
             /\ bufs' = [bufs EXCEPT ![w] =
                           Take(bufs[w], n)
                             \o write_tag(a.P, Drop(bufs[w], n), tlocal[t])]
             /\ Return(t, Ok(required_len(a.P, a.input)))
             /\ UNCHANGED tlocal
  /\ UNCHANGED exceptConc

\* decrypt_to_buffer, one statement at a time: the checks before the copy;
\* the split and output[..ciphertext.len()].copy_from_slice(ciphertext);
\* cipher.decrypt_in_place_detached and the result.
Decrypt_step ==
  /\ \E t \in Threads :
       LET a == tcall[t]
           w == work_buffer(t)
           n == split_point(a.P, a.input)
       IN
       /\ a.op = "decrypt_to_buffer"
       /\ \/ /\ tpc[t] = "check"
             /\ IF ~key_size_ok(a.P, a.key)
                THEN Return(t, Err("Symmetric(InvalidKeySize)"))
                ELSE IF ~nonce_size_ok(a.P, a.nonce)
                THEN Return(t, Err("Symmetric(InvalidNonceSize)"))
                ELSE IF ciphertext_too_short(a.P, a.input)
                THEN Return(t, Err("Symmetric(InvalidCiphertext)"))
                ELSE IF Len(bufs[w]) < split_point(a.P, a.input)
                THEN Return(t, Err("Symmetric(OutputTooSmall)"))
                ELSE Goto(t, "copy")
             /\ UNCHANGED <<bufs, tlocal>>
          \/ /\ tpc[t] = "copy"
             /\ bufs' = [bufs EXCEPT ![w] =
                           copy_from_slice(Take(bufs[w], n), Take(a.input, n))
                             \o Drop(bufs[w], n)]
             /\ tlocal' = [tlocal EXCEPT ![t] = Drop(a.input, n)]
             /\ Goto(t, "open")
          \/ /\ tpc[t] = "open"
             /\ LET opening == decrypt_in_place_detached(a.key, a.nonce,
                                 unwrap_or_default(a.aad), Take(bufs[w], n),
                                 tlocal[t])
                IN /\ bufs' = [bufs EXCEPT ![w] =
                                 opening.buf \o Drop(bufs[w], n)]
                   /\ Return(t, open_result(opening.ok, n))
             /\ UNCHANGED tlocal
  /\ UNCHANGED exceptConc

\* sign: PqSecretKey::from_bytes(&private_key.bytes), then
\* P::sign(&sk, message) and Ok(Signature(..))
Sign_step ==
  /\ \E t \in Threads :
       LET a == tcall[t] IN
       \/ /\ tcall[t].op = "sign" /\ tpc[t] = "check"
          /\ IF PqKeyDecodes(a.key, secret_key_bytes(a.P))
             THEN Goto(t, "sign")
             ELSE Return(t, Err("Signature(Signing)"))
          /\ UNCHANGED bufs
       \/ /\ tcall[t].op = "sign" /\ tpc[t] = "sign"
          /\ LET sig == detached_sign(a.P, a.input, a.key, a.extra[1])
             IN /\ bufs' = [bufs EXCEPT ![t] = sig]
                /\ Return(t, Ok(Len(sig)))
  /\ UNCHANGED <<tlocal, exceptConc>>

\* verify: the two decodings, then P::verify(&sig, message, &pk)
Verify_step ==
  /\ \E t \in Threads :
       LET a == tcall[t] IN
       \/ /\ tcall[t].op = "verify" /\ tpc[t] = "check"
          /\ IF ~PqKeyDecodes(a.key, public_key_bytes(a.P))
             THEN Return(t, Err("Key(InvalidEncoding)"))
             ELSE IF ~PqDetachedSignatureDecodes(a.P, a.extra)
             THEN Return(t, Err("Signature(InvalidSignature)"))
             ELSE Goto(t, "verify")
       \/ /\ tcall[t].op = "verify" /\ tpc[t] = "verify"
          /\ Return(t, params_verify(a.P, a.extra, a.input, a.key))
  /\ UNCHANGED <<bufs, tlocal, exceptConc>>

\* agree: P256PublicKey::from_public_key_der(&public_key.bytes), then
\* SecretKey::from_pkcs8_der, ecdh::diffie_hellman and Ok(..)
Agree_step ==
  /\ \E t \in Threads :
       \/ /\ tcall[t].op = "agree" /\ tpc[t] = "check"
          /\ LET pk == from_public_key_der(tcall[t].extra) IN
             /\ tlocal' = [tlocal EXCEPT ![t] = <<pk.point>>]
             /\ IF pk.ok
                THEN Goto(t, "agree")
                ELSE Return(t, Err("KeyAgreement(InvalidPeerPublicKey)"))
          /\ UNCHANGED bufs
       \/ /\ tcall[t].op = "agree" /\ tpc[t] = "agree"
          /\ LET sk == from_pkcs8_der(tcall[t].key) IN
             IF ~sk.ok
             THEN /\ Return(t, Err("Key(InvalidEncoding)"))
                  /\ UNCHANGED bufs
             ELSE LET secret == <<diffie_hellman(sk.scalar, tlocal[t][1])>>
                  IN /\ bufs' = [bufs EXCEPT ![t] = secret]
                     /\ Return(t, Ok(Len(secret)))
          /\ UNCHANGED tlocal
  /\ UNCHANGED exceptConc

(***************************************************************************)
(* Reading the identity of scheme types.                                   *)
(***************************************************************************)
\* <S as Algorithm>::name()
Name ==
  /\ Len(idlog) < MaxQueries
  /\ \E P \in Schemes \cup EcdhSchemes \cup Levels :
       idlog' = Append(idlog, [scheme |-> P, item |-> "name()", got |-> name(P)])
  /\ UNCHANGED exceptId

\* <S as Algorithm>::ID
Id ==
  /\ Len(idlog) < MaxQueries
  /\ \E P \in Schemes \cup EcdhSchemes \cup Levels :
       idlog' = Append(idlog, [scheme |-> P, item |-> "ID", got |-> ID(P)])
  /\ UNCHANGED exceptId

SpecAead == Init /\ [][NextAead]_vars

SpecSig == Init /\ [][NextSig]_vars

SpecEcdh == Init /\ [][EcdhGenerateKeypair \/ Agree]_vars

SpecKey ==
  Init /\ [][KeyGenerate \/ KeyFromBytes \/ KeyToBytes \/ KeyDebug]_vars

SpecGen == Init /\ [][GenerateKey \/ UseKey]_vars

SpecMem ==
  Init /\ [][MemGenerate \/ MemFromBytes \/ MemUse \/ MemRelease]_vars

SpecSeq == Init /\ [][CallAgain]_vars

SpecConc ==
  Init /\ [][Start \/ Encrypt_step \/ Decrypt_step \/ Sign_step
               \/ Verify_step \/ Agree_step]_vars

SpecId == Init /\ [][Name \/ Id]_vars

(***************************************************************************)
(* Properties of the AEAD capability (checked under SpecAead).             *)
(***************************************************************************)
ToBufferOps == {"encrypt_to_buffer", "decrypt_to_buffer"}

\* The last call is a decryption under the key and nonce of the encryption
\* it follows, with room for the whole plaintext in the output.
OpensSealed ==
  /\ call.op \in DecOps
  /\ call.P = sealed.enc.P
  /\ call.key = sealed.enc.key
  /\ call.nonce = sealed.enc.nonce
  /\ call.op = "decrypt_to_buffer" => Len(call.before) >= Len(sealed.enc.input)

IsBitFlipOf(a, b) ==
  /\ Len(a) = Len(b)
  /\ \E i \in 1..Len(b) :
       /\ \A j \in 1..Len(b) : j # i => a[j] = b[j]
       /\ Xor(a[i], b[i]) \in {1, 2, 4, 8, 16, 32, 64, 128}

\* C1: AEAD round trip.  For both schemes, every plaintext (the empty one
\* included) and AAD absent, empty or non-empty, decrypting the ciphertext
\* that encryption produced, under the same key, nonce and AAD, succeeds and
\* returns exactly the plaintext; for the buffer forms the plaintext is the
\* first bytes_written bytes of the output.
AeadRoundTrip ==
  (OpensSealed /\ call.input = sealed.ct /\ call.aad = sealed.enc.aad)
    => /\ result = Ok(Len(sealed.enc.input))
       /\ Take(output, result.n) = sealed.enc.input

AeadRoundTripWitness ==
  /\ OpensSealed
  /\ call.input = sealed.ct
  /\ call.aad = sealed.enc.aad
  /\ call.op = "decrypt_to_buffer"
  /\ sealed.enc.op = "encrypt_to_buffer"
  /\ call.P = "XChaCha20Poly1305"
  /\ Len(sealed.enc.input) = MaxPtLen
  /\ call.aad.some /\ call.aad.bytes # <<>>
  /\ result.tag = "Ok"
  /\ output # call.before

\* C2: AEAD tamper detection.  Decrypting, under the same key and nonce, a
\* ciphertext-with-tag in which one bit (of the body or of the tag) was
\* flipped, or the genuine one under a different non-empty AAD, returns
\* Error::Symmetric(Decryption) and never Ok.
AeadTamperDetected ==
  (/\ OpensSealed
   /\ \/ IsBitFlipOf(call.input, sealed.ct) /\ call.aad = sealed.enc.aad
      \/ /\ call.input = sealed.ct
         /\ call.aad.some /\ call.aad.bytes # <<>>
         /\ call.aad # sealed.enc.aad)
    => result = Err("Symmetric(Decryption)")

AeadTamperWitness ==
  /\ OpensSealed
  /\ IsBitFlipOf(call.input, sealed.ct)
  /\ call.aad = sealed.enc.aad
  /\ Len(sealed.enc.input) > 0
  /\ Take(call.input, 1) # Take(sealed.ct, 1)
  /\ result = Err("Symmetric(Decryption)")

\* C3: AEAD size validation.  encrypt_to_buffer and decrypt_to_buffer of
\* both schemes return InvalidKeySize for a key whose length is not
\* KEY_SIZE, and InvalidNonceSize for a key of KEY_SIZE bytes with a nonce
\* whose length is not NONCE_SIZE; the output buffer is then unchanged.
AeadSizeValidation ==
  call.op \in ToBufferOps =>
    /\ Len(call.key) # KEY_SIZE(call.P)
         => /\ result = Err("Symmetric(InvalidKeySize)")
            /\ output = call.before
    /\ (Len(call.key) = KEY_SIZE(call.P)
          /\ Len(call.nonce) # NONCE_SIZE(call.P))
         => /\ result = Err("Symmetric(InvalidNonceSize)")
            /\ output = call.before

AeadSizeValidationWitness ==
  /\ call.op = "decrypt_to_buffer"
  /\ Len(call.key) = KEY_SIZE(call.P) + 1
  /\ Len(call.nonce) = NONCE_SIZE(call.P)
  /\ Len(call.before) > 0
  /\ result = Err("Symmetric(InvalidKeySize)")

ValidKeyAndNonce ==
  Len(call.key) = KEY_SIZE(call.P) /\ Len(call.nonce) = NONCE_SIZE(call.P)

\* C4: output capacity of encrypt_to_buffer.  With a valid key and nonce
\* the call returns OutputTooSmall exactly when the output is shorter than
\* plaintext.len() + TAG_SIZE, and then writes no byte of it.
EncryptCapacity ==
  (call.op = "encrypt_to_buffer" /\ ValidKeyAndNonce) =>
    /\ result = Err("Symmetric(OutputTooSmall)")
         <=> Len(call.before) < Len(call.input) + TAG_SIZE(call.P)
    /\ result = Err("Symmetric(OutputTooSmall)") => output = call.before

EncryptCapacityWitness ==
  /\ call.op = "encrypt_to_buffer"
  /\ ValidKeyAndNonce
  /\ Len(call.input) > 0
  /\ Len(call.before) = Len(call.input) + TAG_SIZE(call.P) - 1
  /\ result = Err("Symmetric(OutputTooSmall)")

\* C5: minimum input length of decrypt_to_buffer.  With a valid key and
\* nonce every input shorter than TAG_SIZE (the empty one included) is
\* answered with InvalidCiphertext, without a panic and without a write to
\* the output.
DecryptMinLength ==
  (/\ call.op = "decrypt_to_buffer"
   /\ ValidKeyAndNonce
   /\ Len(call.input) < TAG_SIZE(call.P))
    => /\ result = Err("Symmetric(InvalidCiphertext)")
       /\ output = call.before

DecryptMinLengthWitness ==
  /\ call.op = "decrypt_to_buffer"
  /\ ValidKeyAndNonce
  /\ Len(call.input) = TAG_SIZE(call.P) - 1
  /\ result = Err("Symmetric(InvalidCiphertext)")

\* C6: wire layout and lengths.  A successful encrypt_to_buffer returns
\* plaintext.len() + 16 and leaves the encrypted plaintext in the first
\* plaintext.len() bytes of the output and the tag in the next 16; a
\* successful decrypt_to_buffer returns the input length less 16 and has
\* taken the last 16 input bytes as the tag of the bytes before them.
AeadWireLayout ==
  /\ (call.op = "encrypt_to_buffer" /\ result.tag = "Ok") =>
       LET n == Len(call.input)
           body == ApplyKeystream(call.key, call.nonce, call.input)
       IN /\ result.n = n + 16
          /\ Take(output, n) = body
          /\ SubSeq(output, n + 1, n + 16) =
               ComputeTag(call.key, call.nonce,
                          IF call.aad.some THEN call.aad.bytes ELSE <<>>, body)
  /\ (call.op = "decrypt_to_buffer" /\ result.tag = "Ok") =>
       LET n == Len(call.input) - 16
       IN /\ n >= 0
          /\ result.n = n
          /\ Drop(call.input, n) =
               ComputeTag(call.key, call.nonce,
                          IF call.aad.some THEN call.aad.bytes ELSE <<>>,
                          Take(call.input, n))

AeadWireLayoutWitness ==
  /\ call.op = "encrypt_to_buffer"
  /\ result = Ok(MaxPtLen + 16)
  /\ Len(output) > result.n
  /\ Take(output, MaxPtLen) # call.input

\* C7: AAD normalisation.  An absent AAD is an empty AAD: encryption with
\* either produces the tag of the empty AAD (so the two outputs are byte
\* for byte the same), and a ciphertext sealed with one opens with the
\* other.
EmptyAads == {None, Some(<<>>)}

AadNormalization ==
  /\ (call.op \in EncOps /\ result.tag = "Ok" /\ call.aad \in EmptyAads) =>
       LET n == Len(call.input)
       IN SubSeq(output, n + 1, n + 16) =
            ComputeTag(call.key, call.nonce, <<>>, Take(output, n))
  /\ (/\ OpensSealed
      /\ call.input = sealed.ct
      /\ sealed.enc.aad \in EmptyAads
      /\ call.aad \in EmptyAads)
       => /\ result = Ok(Len(sealed.enc.input))
          /\ Take(output, result.n) = sealed.enc.input

AadNormalizationWitness ==
  /\ OpensSealed
  /\ call.input = sealed.ct
  /\ sealed.enc.aad = None
  /\ call.aad = Some(<<>>)
  /\ Len(sealed.enc.input) > 0
  /\ result.tag = "Ok"

StructuralErrors ==
  {Err("Symmetric(InvalidKeySize)"), Err("Symmetric(InvalidNonceSize)"),
   Err("Symmetric(OutputTooSmall)"), Err("Symmetric(InvalidCiphertext)")}

ProviderErrors == {Err("Symmetric(Encryption)"), Err("Symmetric(Decryption)")}

\* C8 as stated: whenever encrypt_to_buffer or decrypt_to_buffer returns an
\* error, Decryption on a tag mismatch included, the output buffer holds
\* exactly the bytes it held before the call.
NoWriteOnAnyError ==
  (call.op \in ToBufferOps /\ result.tag = "Err") => output = call.before

\* C8 (amended): a call that returns one of the size-validation errors
\* leaves the output buffer unchanged; a call that returns a provider error
\* (raised after the input was copied into the buffer) has overwritten the
\* first input-body-length bytes with the copied input body -- on Decryption
\* the still encrypted ciphertext body, never plaintext -- and has left the
\* bytes after them unchanged.
NoWriteOnValidationError ==
  (call.op \in ToBufferOps /\ result.tag = "Err") =>
    /\ result \in StructuralErrors \cup ProviderErrors
    /\ result \in StructuralErrors => output = call.before
    /\ result \in ProviderErrors =>
         LET n == IF call.op = "decrypt_to_buffer"
                  THEN Len(call.input) - 16
                  ELSE Len(call.input)
         IN /\ n >= 0
            /\ Len(output) = Len(call.before)
            /\ Take(output, n) = Take(call.input, n)
            /\ Drop(output, n) = Drop(call.before, n)

NoWriteOnValidationErrorWitness ==
  /\ call.op = "decrypt_to_buffer"
  /\ result = Err("Symmetric(Decryption)")
  /\ Len(call.input) > 16
  /\ output # call.before
  /\ Len(output) > Len(call.input) - 16

(***************************************************************************)
(* Properties of the signature capability (checked under SpecSig).         *)
(***************************************************************************)
Verified == vcall # NoVerify

\* C9: signature round trip.  At every security level and for every
\* generated keypair, signing succeeds for every message (the empty one
\* included), verifying the signature against the signed message and the
\* signer's public key returns Ok, and verifying it against any other
\* message returns an error.
SignatureRoundTrip ==
  /\ signed # NoSigned => signed.res.tag = "Ok"
  /\ (Verified /\ vcall.pk = keypair.pk /\ vcall.sig = signed.sig) =>
       /\ vcall.msg = signed.msg => vresult = Ok(0)
       /\ vcall.msg # signed.msg => vresult.tag = "Err"

SignatureRoundTripWitness ==
  /\ Verified
  /\ keypair.P = "Dilithium5"
  /\ vcall.pk = keypair.pk
  /\ vcall.sig = signed.sig
  /\ signed.msg = <<>>
  /\ vcall.msg = <<>>
  /\ vresult = Ok(0)

\* C10: defensive verification.  verify never panics, whatever the
\* signature bytes (empty and over-long ones included): bytes that do not
\* decode as a signature of the scheme give Signature(InvalidSignature),
\* bytes that decode but do not validate for the public key and message give
\* Signature(Verification), and Ok is returned only when the provider's
\* verification succeeds.
DefensiveVerify ==
  Verified =>
    LET decodes == Len(vcall.sig) <= signature_bytes(vcall.P)
        valid == verify_detached_signature(vcall.P, vcall.sig, vcall.msg,
                                           vcall.pk)
    IN /\ vresult.tag # "Panic"
       /\ ~decodes => vresult = Err("Signature(InvalidSignature)")
       /\ (decodes /\ ~valid) => vresult = Err("Signature(Verification)")
       /\ vresult.tag = "Ok" => (decodes /\ valid)

DefensiveVerifyWitness ==
  /\ Verified
  /\ Len(vcall.sig) > signature_bytes(vcall.P)
  /\ vresult = Err("Signature(InvalidSignature)")

(***************************************************************************)
(* Properties of the key-agreement capability (checked under SpecEcdh).    *)
(***************************************************************************)
AgreementsMade == {prev, last}

\* The encodings the provider's encoders produce for the keys of the group.
WellFormedPrivate(bytes) ==
  \E scalar \in 1..10 : bytes = to_pkcs8_der(scalar)

WellFormedPublic(bytes) ==
  \E scalar \in 1..10 : bytes = to_public_key_der(public_key(scalar))

\* C11: key-agreement symmetry.  For two keypairs A and B generated
\* independently, agree(A.private, B.public) and agree(B.private, A.public)
\* both succeed and return the same shared secret, and the agreement of A's
\* private key re-read from its own byte encoding with B.public returns what
\* agree(A.private, B.public) returns.
KeyAgreementSymmetry ==
  \A x \in AgreementsMade, y \in AgreementsMade :
    /\ x.who \in {"ab", "ba", "re"} => (x.res.tag = "Ok" /\ x.secret # <<>>)
    /\ (x.who = "ab" /\ y.who = "ba") => x.secret = y.secret
    /\ (x.who = "re" /\ y.who = "ab") => (x.res = y.res /\ x.secret = y.secret)

KeyAgreementSymmetryWitness ==
  /\ Len(pairs) = 2
  /\ pairs[1].sk # pairs[2].sk
  /\ prev.who = "ab"
  /\ last.who = "ba"
  /\ last.res.tag = "Ok"
  /\ last.secret = prev.secret
  /\ last.secret # <<>>

\* C12: peer-key validation in agree.  The peer's public key is decoded
\* first: bytes that are not a well-formed public key give
\* KeyAgreement(InvalidPeerPublicKey) whatever the private key holds; a
\* well-formed public key with private-key bytes that are not a well-formed
\* PKCS#8 key gives Key(InvalidEncoding); a shared secret is returned
\* exactly when both decode.
PeerKeyValidation ==
  \A x \in AgreementsMade :
    x.who # "none" =>
      /\ ~WellFormedPublic(x.pk) =>
           /\ x.res = Err("KeyAgreement(InvalidPeerPublicKey)")
           /\ x.secret = <<>>
      /\ (WellFormedPublic(x.pk) /\ ~WellFormedPrivate(x.sk)) =>
           /\ x.res = Err("Key(InvalidEncoding)")
           /\ x.secret = <<>>
      /\ (WellFormedPublic(x.pk) /\ WellFormedPrivate(x.sk)) =>
           /\ x.res.tag = "Ok"
           /\ x.secret # <<>>

PeerKeyValidationWitness ==
  /\ last.who = "raw"
  /\ ~WellFormedPublic(last.pk)
  /\ ~WellFormedPrivate(last.sk)
  /\ last.pk # <<>>
  /\ last.res = Err("KeyAgreement(InvalidPeerPublicKey)")

(***************************************************************************)
(* Properties of the key lifecycle (checked under SpecKey).                *)
(***************************************************************************)
KeyCalled == kcall.fn # "none"

\* The scheme's validation of a key encoding: the length constant of the
\* security level, or being an encoding the DER encoders produce.
PassesValidation(T, P, bytes) ==
  CASE T = "DilithiumPublicKey" -> Len(bytes) = public_key_bytes(P)
    [] T = "DilithiumSecretKey" -> Len(bytes) = secret_key_bytes(P)
    [] T = "EcdhPublicKey" -> WellFormedPublic(bytes)
    [] OTHER -> WellFormedPrivate(bytes)

\* C13: validated key construction.  For each of the four key types,
\* from_bytes and try_from either return a key that holds the given bytes,
\* and these pass the scheme's validation, or return the error
\* Key(InvalidEncoding) and no key.
ValidatedKeyConstruction ==
  KeyCalled =>
    \/ /\ kresult.res.tag = "Ok"
       /\ kresult.bytes = kcall.input
       /\ PassesValidation(kcall.T, kcall.P, kcall.input)
    \/ /\ kresult.res = Err("Key(InvalidEncoding)")
       /\ kresult.bytes = <<>>

DilithiumKeyTypes == {"DilithiumPublicKey", "DilithiumSecretKey"}

OriginKey(T) ==
  IF T \in {"DilithiumPublicKey", "EcdhPublicKey"} THEN origin.pk
                                                    ELSE origin.sk

\* C14: Dilithium key encoding.  At each security level the generated
\* public key has public_key_bytes() bytes and the secret key
\* secret_key_bytes() bytes; from_bytes accepts a byte string exactly when
\* its length is that constant, and the key then holds the bytes given;
\* to_bytes of the key read gives the bytes back, and from_bytes of the
\* to_bytes of a generated key succeeds with a key equal to it.
DilithiumKeyEncoding ==
  /\ origin.scheme \in Levels =>
       /\ Len(origin.pk) = public_key_bytes(origin.scheme)
       /\ Len(origin.sk) = secret_key_bytes(origin.scheme)
  /\ (KeyCalled /\ kcall.T \in DilithiumKeyTypes) =>
       LET size == IF kcall.T = "DilithiumPublicKey"
                   THEN public_key_bytes(kcall.P)
                   ELSE secret_key_bytes(kcall.P)
       IN /\ kresult.res.tag = "Ok" <=> Len(kcall.input) = size
          /\ kresult.res.tag = "Ok" => kresult.bytes = kcall.input
          /\ kbytes.res # Err("none") => kbytes = [res |-> Ok(size),
                                           bytes |-> kcall.input]
          /\ (/\ kcall.P = origin.scheme
              /\ kcall.input = to_bytes(kcall.T, OriginKey(kcall.T)).bytes)
               => /\ kresult.res.tag = "Ok"
                  /\ kresult.bytes = OriginKey(kcall.T)

DilithiumKeyEncodingWitness ==
  /\ kcall.T = "DilithiumSecretKey"
  /\ kcall.P = "Dilithium3"
  /\ origin.scheme = "Dilithium3"
  /\ kcall.input = origin.sk
  /\ kresult.res.tag = "Ok"
  /\ kbytes.res.tag = "Ok"
  /\ kbytes.bytes = origin.sk

\* C16: private keys are never printed.  The {:?} output of a private key
\* does not depend on the bytes it holds: two private keys of the same
\* scheme print the same text.
PrivateKeysNotPrinted ==
  printed # <<>> => printed[1] = printed[2]

(***************************************************************************)
(* Properties of key generation (checked under SpecGen).                   *)
(***************************************************************************)
\* C17: symmetric key generation.  For both schemes generate_key returns a
\* key of exactly KEY_SIZE (32) bytes, the bytes the randomness source
\* delivered, or Key(GenerationFailed) and no key when the source fails;
\* a returned key is never answered with InvalidKeySize by
\* encrypt_to_buffer or decrypt_to_buffer of the same scheme.
SymmetricKeyGeneration ==
  /\ gen.P # "none" =>
       /\ gen.rng.ok => /\ gen.res = Ok(32)
                        /\ Len(gen.key) = 32
                        /\ Len(gen.key) = KEY_SIZE(gen.P)
                        /\ gen.key = try_fill_bytes(gen.rng, Zeros(32)).buf
       /\ ~gen.rng.ok => /\ gen.res = Err("Key(GenerationFailed)")
                         /\ gen.key = <<>>
  /\ used.call # NoCall =>
       /\ used.call.key = gen.key
       /\ used.res # Err("Symmetric(InvalidKeySize)")
       /\ used.res.tag # "Panic"
       /\ Len(used.call.nonce) = NONCE_SIZE(gen.P) => used.res.tag = "Ok"

SymmetricKeyGenerationWitness ==
  /\ gen.P = "XChaCha20Poly1305"
  /\ gen.res = Ok(32)
  /\ used.call.op = "decrypt_to_buffer"
  /\ Len(used.call.input) = MaxPtLen + 16
  /\ used.res = Ok(MaxPtLen)

(***************************************************************************)
(* Properties of the secret buffers (checked under SpecMem).               *)
(***************************************************************************)
\* The buffers of this layer that hold a private key, a shared secret or a
\* symmetric key (clones keep the kind of what they clone).
SecretKinds ==
  {"DilithiumSecretKey", "EcdhPrivateKey", "SharedSecret", "SymmetricKey"}

Released(i) == ~heap[i].live

SameArguments(a, b) ==
  /\ a.op = b.op /\ a.P = b.P /\ a.key = b.key /\ a.nonce = b.nonce
  /\ a.input = b.input /\ a.aad = b.aad
  /\ Len(a.before) = Len(b.before)

\* What a call returns: its result and, when it succeeds, the bytes written.
Returned(r) ==
  <<r.res, IF r.res.tag = "Ok" THEN Take(r.out, r.res.n) ELSE <<>>>>

\* C18: statelessness, no nonce tracking.  After any sequence of calls, a
\* call returns what any earlier call with the same arguments returned,
\* whatever the calls between them did and whatever the output buffer held
\* before; sealing again under a key and nonce already used succeeds, with
\* the same ciphertext for the same plaintext and AAD.
Statelessness ==
  (remembered.call # NoCall /\ latest.call # NoCall) =>
    /\ SameArguments(remembered.call, latest.call) =>
         Returned(remembered) = Returned(latest)
    /\ (/\ remembered.call.op \in EncOps
        /\ latest.call.op \in EncOps
        /\ latest.call.P = remembered.call.P
        /\ latest.call.key = remembered.call.key
        /\ latest.call.nonce = remembered.call.nonce)
         => /\ latest.res = Ok(Len(latest.call.input) + 16)
            /\ (/\ latest.call.input = remembered.call.input
                /\ latest.call.aad = remembered.call.aad)
                 => Returned(latest) = Returned(remembered)

StatelessnessWitness ==
  /\ remembered.call.op = "encrypt_to_buffer"
  /\ latest.call.op = "encrypt_to_buffer"
  /\ SameArguments(remembered.call, latest.call)
  /\ latest.call.before # remembered.call.before
  /\ Len(latest.call.input) = MaxPtLen
  /\ latest.res.tag = "Ok"
  /\ Returned(latest) = Returned(remembered)

(***************************************************************************)
(* Properties of concurrent calls (checked under SpecConc).                *)
(***************************************************************************)
Done(t) == tpc[t] = "done"

\* What a call returns and leaves in its caller's buffer when it runs alone.
Alone(a) ==
  CASE a.op \in {"encrypt_to_buffer", "decrypt_to_buffer"} -> Run(a)
    [] a.op = "sign" ->
         LET r == sign(a.P, a.key, a.input, a.extra[1])
         IN [res |-> r.res, out |-> r.sig]
    [] a.op = "verify" ->
         [res |-> verify(a.P, a.key, a.input, a.extra), out |-> <<>>]
    [] OTHER ->
         LET r == agree(a.key, a.extra) IN [res |-> r.res, out |-> r.secret]

\* C19: concurrency independence.  When threads run encrypt_to_buffer,
\* decrypt_to_buffer, sign, verify and agree at the same time, sharing the
\* keys and each with its own output buffer, then under every interleaving
\* of their statements each call returns the result, and leaves in its
\* buffer the bytes, that the same call gives when it runs alone.
ConcurrencyIndependence ==
  \A t \in Threads :
    Done(t) => /\ tres[t] = Alone(tcall[t]).res
               /\ bufs[t] = Alone(tcall[t]).out

ConcurrencyIndependenceWitness ==
  /\ Done(1)
  /\ tcall[1].op = "encrypt_to_buffer"
  /\ tres[1] = Ok(MaxPtLen + 16)
  /\ tcall[2].op = "decrypt_to_buffer"
  /\ tcall[2].key = tcall[1].key
  /\ tpc[2] = "open"
  /\ bufs[1] = Alone(tcall[1]).out
  /\ bufs[2] # tcall[2].before

(***************************************************************************)
(* Properties of the algorithm identity (checked under SpecId).            *)
(***************************************************************************)
\* C20: algorithm identity.  Every concrete scheme type exposes name() and
\* ID; each is declared, is the same every time it is read, and equals the
\* NAME, respectively the ID, that the scheme's parameter marker declares.
AlgorithmIdentity ==
  \A i \in 1..Len(idlog) :
    LET e == idlog[i] IN
      /\ e.got # <<>>
      /\ e.got = (IF e.item = "name()" THEN SchemeParams_NAME(e.scheme)
                                       ELSE SchemeParams_ID(e.scheme))
      /\ \A j \in 1..Len(idlog) :
           (idlog[j].scheme = e.scheme /\ idlog[j].item = e.item)
             => idlog[j].got = e.got

(***************************************************************************)
(* Properties across the two AEAD schemes and the two forms of a call      *)
(* (checked under SpecAead).                                               *)
(***************************************************************************)
\* The nonces of scheme Q that are of Q's own NONCE_SIZE exactly when nonce
\* is of P's own NONCE_SIZE.
NoncesLike(P, nonce, Q) ==
  {n \in ValidNonces(Q) \cup BadNonces(Q) :
     (Len(n) = NONCE_SIZE(Q)) <=> (Len(nonce) = NONCE_SIZE(P))}

\* The calls of the other scheme that differ from the last call in the nonce
\* length only.  The twin of a decryption opens what the other scheme sealed
\* from the same plaintext, with the same bytes changed or cut off, under
\* the sealing nonce exactly when the last call used its sealing nonce.
TwinCalls ==
  LET Q == OtherScheme(call.P) IN
  IF call.op \in EncOps
  THEN {[call EXCEPT !.P = Q, !.nonce = n] :
          n \in NoncesLike(call.P, call.nonce, Q)}
  ELSE UNION
    {LET r == Run([sealed.enc EXCEPT !.P = Q, !.nonce = e])
         ct2 == Take(r.out, r.res.n)
         input2 == [i \in 1..Len(call.input) |->
                      Xor(ct2[i], Xor(call.input[i], sealed.ct[i]))]
     IN {[call EXCEPT !.P = Q, !.nonce = d, !.input = input2] :
           d \in {n \in NoncesLike(call.P, call.nonce, Q) :
                    (n = e) <=> (call.nonce = sealed.enc.nonce)}} :
     e \in ValidNonces(Q)}

\* C21: the two schemes are the same state machine up to the nonce size.
\* Both have KEY_SIZE 32 and TAG_SIZE 16, NONCE_SIZE is 12 for
\* ChaCha20-Poly1305 and 24 for XChaCha20-Poly1305, and a call of one scheme
\* and the call of the other that differs only in the nonce being of the
\* scheme's own NONCE_SIZE or not return the same outcome: Ok with the same
\* bytes_written, or the same error.
SchemesAgreeUpToNonce ==
  /\ \A P \in Schemes : KEY_SIZE(P) = 32 /\ TAG_SIZE(P) = 16
  /\ NONCE_SIZE("ChaCha20Poly1305") = 12
  /\ NONCE_SIZE("XChaCha20Poly1305") = 24
  /\ call.op # "none" => \A a \in TwinCalls : Run(a).res = result

SchemesAgreeUpToNonceWitness ==
  /\ call.op = "decrypt_to_buffer"
  /\ call.P = "XChaCha20Poly1305"
  /\ Len(call.nonce) = 24
  /\ Len(call.input) > 16
  /\ result = Ok(Len(call.input) - 16)
  /\ \E a \in TwinCalls : Len(a.nonce) = 12 /\ Run(a).res = result

\* The allocating form of the last call, run on the same arguments.
AllocatingForm ==
  IF call.op = "encrypt_to_buffer"
  THEN encrypt(call.P, call.key, call.nonce, call.input, call.aad)
  ELSE decrypt(call.P, call.key, call.nonce, call.input, call.aad)

KeySizeFails == Len(call.key) # KEY_SIZE(call.P)
NonceSizeFails == Len(call.nonce) # NONCE_SIZE(call.P)
CiphertextFails ==
  call.op = "decrypt_to_buffer" /\ Len(call.input) < TAG_SIZE(call.P)
CapacityFails ==
  IF call.op = "encrypt_to_buffer"
  THEN Len(call.before) < Len(call.input) + TAG_SIZE(call.P)
  ELSE Len(call.before) < Len(call.input) - TAG_SIZE(call.P)

\* The error of the first check, in the order key size, nonce size,
\* ciphertext length, output capacity, that the arguments fail.
FirstFailedCheck ==
  IF KeySizeFails THEN Err("Symmetric(InvalidKeySize)")
  ELSE IF NonceSizeFails THEN Err("Symmetric(InvalidNonceSize)")
  ELSE IF CiphertextFails THEN Err("Symmetric(InvalidCiphertext)")
  ELSE Err("Symmetric(OutputTooSmall)")

\* C23: validation precedence.  When several arguments are invalid at once
\* the error is that of the first failed check in a fixed order:
\* encrypt_to_buffer reports InvalidKeySize before InvalidNonceSize before
\* OutputTooSmall, decrypt_to_buffer InvalidKeySize before InvalidNonceSize
\* before InvalidCiphertext before OutputTooSmall; every combination of
\* arguments gets exactly one error kind, the same on every run.
ValidationPrecedence ==
  call.op \in ToBufferOps =>
    /\ (KeySizeFails \/ NonceSizeFails \/ CiphertextFails \/ CapacityFails)
         => result = FirstFailedCheck
    /\ result \in StructuralErrors
         => (KeySizeFails \/ NonceSizeFails \/ CiphertextFails
               \/ CapacityFails)
    /\ Run(call).res = result

ValidationPrecedenceWitness ==
  /\ call.op = "decrypt_to_buffer"
  /\ KeySizeFails
  /\ NonceSizeFails
  /\ Len(call.input) = TAG_SIZE(call.P) - 1
  /\ Len(call.before) = 0
  /\ result = Err("Symmetric(InvalidKeySize)")

\* C24: decrypt capacity and frame.  With a valid key and nonce and an input
\* of at least TAG_SIZE bytes, decrypt_to_buffer returns OutputTooSmall
\* exactly when the output is shorter than the input less TAG_SIZE, and then
\* writes no byte of it; and a successful encrypt_to_buffer or
\* decrypt_to_buffer leaves every output byte at an index >= bytes_written
\* as it was.
DecryptCapacityAndFrame ==
  /\ (/\ call.op = "decrypt_to_buffer"
      /\ ValidKeyAndNonce
      /\ Len(call.input) >= TAG_SIZE(call.P))
       => /\ result = Err("Symmetric(OutputTooSmall)")
               <=> Len(call.before) < Len(call.input) - TAG_SIZE(call.P)
          /\ result = Err("Symmetric(OutputTooSmall)") => output = call.before
  /\ (call.op \in ToBufferOps /\ result.tag = "Ok")
       => /\ Len(output) = Len(call.before)
          /\ result.n <= Len(output)
          /\ Drop(output, result.n) = Drop(call.before, result.n)

\* A decryption refused for lack of room, of a ciphertext that
\* encrypt_to_buffer had written into a buffer larger than needed.
DecryptCapacityAndFrameWitness ==
  /\ call.op = "decrypt_to_buffer"
  /\ ValidKeyAndNonce
  /\ call.input = sealed.ct
  /\ Len(call.before) = Len(call.input) - TAG_SIZE(call.P) - 1
  /\ Len(call.before) > 0
  /\ result = Err("Symmetric(OutputTooSmall)")
  /\ output = call.before
  /\ sealed.enc.op = "encrypt_to_buffer"
  /\ Len(sealed.enc.before) > Len(sealed.ct)

====
